---- MODULE Spec2Model ----
(***************************************************************************)
(* Reconciliation scripts of the repository (src/text.py): key             *)
(* normalisation (norm_key) and the commitment / entry sheet pipeline      *)
(* (create_commitment_sheet, create_entry_sheet_with_subtotals); the       *)
(* shared-file update of src/hashing.py (update_shared_excel_with_kpi);    *)
(* the ExcelBackendProcessor of src/cdr_backend.py; the GS conn lookup of  *)
(* src/nocode.py; the dashboards of src/logging.py and src/sreeproject.py; *)
(* the window of src/starpio-gui.py.                                       *)
(*                                                                         *)
(* A string is a sequence of one-character tokens; a spreadsheet cell is a *)
(* record [k, s, n]: k = "nan" (empty cell), "str" (text s), "int" or      *)
(* "float" (number n).                                                     *)
(***************************************************************************)
EXTENDS Integers, Sequences, FiniteSets, TLC

VARIABLES
    x, y, z, npc,                    \* norm_key harness: input, norm_key(x), norm_key(norm_key(x))
    cdr_file_data,                   \* sheet "CDR Summary By Investor"
    data_format,                     \* sheet "Data_format" of the wizard file
    investern_format,                \* sheet "investern_format" of the wizard file
    allocation_data,                 \* sheet "allocation_data" of the wizard file
    acct_to_commit_multi,            \* the multi-key lookup built by create_commitment_sheet
    df,                              \* the detail table after the subtotal pass
    sections,                        \* the <<start_idx, idx>> of every iteration of the subtotal loop
    combined_df,                     \* the value returned by create_commitment_sheet
    id_to_amt,                       \* the single-key map of create_entry_sheet_with_subtotals
    entry_df,                        \* the rows written to the "Entry" sheet
    pc,                              \* position in the __main__ block
    drive_exists,                    \* hashing.py: the shared drive path exists
    lock_file,                       \* hashing.py: file.lock exists on the shared drive
    file_present, file_rows,         \* hashing.py: the Excel file exists, and its number of rows
    upc,                             \* hashing.py: position of every invocation
    initial_hash,                    \* hashing.py: initial_hash of every invocation
    result,                          \* hashing.py: the dict every invocation returned
    rows_written,                    \* hashing.py: the rows every invocation wrote to the file
    summary_sheet,                   \* cdr_backend.py: sheet "CDR Sumary By Investor" of report_file
    investern_sheet,                 \* cdr_backend.py: sheet "investern_format" of cdr_file
    conn_sheet,                      \* cdr_backend.py: the connection sheet of cdr_file
    cdr_sumary_df, investern_entry_df, conn_df, lookup_df, mapping, wb,
                                     \* cdr_backend.py: the fields of the processor
    bpc,                             \* cdr_backend.py: position in backend_process
    tpc,                             \* cdr_backend.py: position of every submitted task
    approx,                          \* cdr_backend.py: the locals of update_approx_matches_sheet
    file1,                           \* nocode.py: the first workbook, its sheet "CDR Summary By Investor"
    file2,                           \* nocode.py: the second workbook, its first sheet
    gs_conn,                         \* nocode.py: the column conn_df['GS conn']
    mpc,                             \* nocode.py: position in main
    status_dict,                     \* logging.py: self.status_dict
    start_btn,                       \* logging.py: state of the Start button
    mt,                              \* logging.py: position of the thread of every file
    seen,                            \* logging.py: status_dict as every thread's all() began to read it
    finish_calls,                    \* logging.py: the number of calls of finish
    status_lines,                    \* sreeproject.py: the status of every row of self.status_lines
    after_queue,                     \* sreeproject.py: the _set_status calls root.after has queued
    rm,                              \* sreeproject.py: position of the thread of run_macros
    dots,                            \* sreeproject.py: position of the dots thread of every macro
    seq_start_btn,                   \* sreeproject.py: state of the Start button
    frame1_buttons,                  \* starpio-gui.py: state of the buttons of Frame 1
    frame2,                          \* starpio-gui.py: the widgets of Frame 2, in pack order
    message_label,                   \* starpio-gui.py: self.message_label
    file_entry,                      \* starpio-gui.py: the text box of Frame 2 holds a path
    after_update,                    \* starpio-gui.py: the finish_update call self.after has scheduled
    submit_threads                   \* starpio-gui.py: the submit_file threads that have not run yet

vars == <<x, y, z, npc, cdr_file_data, data_format, investern_format, allocation_data,
          acct_to_commit_multi, df, sections, combined_df, id_to_amt, entry_df, pc,
          drive_exists, lock_file, file_present, file_rows, upc, initial_hash, result,
          rows_written, summary_sheet, investern_sheet, conn_sheet, cdr_sumary_df,
          investern_entry_df, conn_df, lookup_df, mapping, wb, bpc, tpc, approx,
          file1, file2, gs_conn, mpc,
          status_dict, start_btn, mt, seen, finish_calls,
          status_lines, after_queue, rm, dots, seq_start_btn,
          frame1_buttons, frame2, message_label, file_entry, after_update, submit_threads>>

normVars == <<x, y, z, npc>>
sheetVars == <<cdr_file_data, data_format, investern_format, allocation_data,
               acct_to_commit_multi, df, sections, combined_df, id_to_amt, entry_df, pc>>
lockVars == <<drive_exists, lock_file, file_present, file_rows, upc, initial_hash, result,
              rows_written>>
backendVars == <<summary_sheet, investern_sheet, conn_sheet, cdr_sumary_df,
                 investern_entry_df, conn_df, lookup_df, mapping, wb, bpc, tpc, approx>>
vlookupVars == <<file1, file2, gs_conn, mpc>>
dashVars == <<status_dict, start_btn, mt, seen, finish_calls>>
seqVars == <<status_lines, after_queue, rm, dots, seq_start_btn>>
guiVars == <<frame1_buttons, frame2, message_label, file_entry, after_update,
             submit_threads>>
appVars == <<vlookupVars, dashVars, seqVars, guiVars>>
coreVars == <<normVars, sheetVars, lockVars, backendVars>>

----------------------------------------------------------------------------
(* Bounds of the model *)

MaxLen == 3
MaxRows == 3
MaxCdr == 2
MaxInvestern == 2
NumUsers == 2
MaxFileRows == 2
MaxConn == 2
MaxSummary == 2
NumFiles == 2
NumMacros == 2
MaxSubmits == 2

----------------------------------------------------------------------------
(* Characters and strings *)

NBSP == "NBSP"

UpperCase == <<"A","B","C","D","E","F","G","H","I","J","K","L","M",
               "N","O","P","Q","R","S","T","U","V","W","X","Y","Z">>
LowerCase == <<"a","b","c","d","e","f","g","h","i","j","k","l","m",
               "n","o","p","q","r","s","t","u","v","w","x","y","z">>

LowerSet == {LowerCase[i] : i \in DOMAIN LowerCase}
UpperSet == {UpperCase[i] : i \in DOMAIN UpperCase}

UpperOf == [c \in LowerSet |-> UpperCase[CHOOSE i \in DOMAIN LowerCase : LowerCase[i] = c]]
LowerOf == [c \in UpperSet |-> LowerCase[CHOOSE i \in DOMAIN UpperCase : UpperCase[i] = c]]

UpperChar(c) == IF c \in LowerSet THEN UpperOf[c] ELSE c

LowerChar(c) == IF c \in UpperSet THEN LowerOf[c] ELSE c

\* str.upper() / str.lower()
Upper(s) == [i \in 1..Len(s) |-> UpperChar(s[i])]
Lower(s) == [i \in 1..Len(s) |-> LowerChar(s[i])]

\* str.isspace() on the characters of the model
IsSpace(c) == c \in {" ", NBSP}

RECURSIVE LStrip(_)
LStrip(s) == IF s # <<>> /\ IsSpace(Head(s)) THEN LStrip(Tail(s)) ELSE s

RECURSIVE RStrip(_)
RStrip(s) ==
    IF s # <<>> /\ IsSpace(s[Len(s)]) THEN RStrip(SubSeq(s, 1, Len(s) - 1)) ELSE s

\* str.strip()
Strip(s) == RStrip(LStrip(s))

\* str.endswith(suffix)
EndsWith(s, suffix) ==
    /\ Len(s) >= Len(suffix)
    /\ SubSeq(s, Len(s) - Len(suffix) + 1, Len(s)) = suffix

\* str.replace(old, new) for a single character
ReplaceChar(s, old, new) == [i \in 1..Len(s) |-> IF s[i] = old THEN new ELSE s[i]]

\* re.sub(r"[...]", "", s): remove every character of the class
RemoveChars(s, class) == SelectSeq(s, LAMBDA c : c \notin class)

\* "needle in haystack"
Contains(haystack, needle) ==
    \E i \in 0..(Len(haystack) - Len(needle)) :
        SubSeq(haystack, i + 1, i + Len(needle)) = needle

DigitChars == <<"0","1","2","3","4","5","6","7","8","9">>

RECURSIVE Digits(_)
Digits(n) ==
    IF n < 10 THEN <<DigitChars[n + 1]>>
    ELSE Digits(n \div 10) \o <<DigitChars[(n % 10) + 1]>>

----------------------------------------------------------------------------
(* Cells *)

NaN == [k |-> "nan", s |-> <<>>, n |-> 0]
StrCell(s) == [k |-> "str", s |-> s, n |-> 0]
IntCell(n) == [k |-> "int", s |-> <<>>, n |-> n]
FloatCell(n) == [k |-> "float", s |-> <<>>, n |-> n]

\* pd.isna(x)
IsNa(c) == c.k = "nan"

\* str(x): text is itself, an int 1023 is "1023", a whole float 1023.0 is "1023.0"
Str(c) ==
    CASE c.k = "str" -> c.s
      [] c.k = "int" -> Digits(c.n)
      [] c.k = "float" -> Digits(c.n) \o <<".", "0">>
      [] c.k = "nan" -> <<"n", "a", "n">>

\* norm_key without the test of line 51: an empty cell goes through str()
norm_key_str(c) ==
    LET s0 == Strip(Str(c))
        s1 == IF EndsWith(s0, <<".", ".">>) THEN SubSeq(s0, 1, Len(s0) - 2) ELSE s0
        s2 == ReplaceChar(s1, NBSP, " ")
        s3 == RemoveChars(s2, {",", "-"})
    IN  Upper(s3)

\* norm_key(x)
norm_key(c) ==
    IF IsNa(c) THEN <<>>
    ELSE LET s0 == Strip(Str(c))
             s1 == IF EndsWith(s0, <<".", ".">>) THEN SubSeq(s0, 1, Len(s0) - 2) ELSE s0
             s2 == ReplaceChar(s1, NBSP, " ")
             s3 == RemoveChars(s2, {",", "-"})
         IN  Upper(s3)

----------------------------------------------------------------------------
(* Numbers and tables *)

IsDigit(c) == \E i \in DOMAIN DigitChars : DigitChars[i] = c

DigitValue(c) == (CHOOSE i \in DOMAIN DigitChars : DigitChars[i] = c) - 1

RECURSIVE ParseDigits(_)
ParseDigits(s) ==
    IF s = <<>> THEN 0
    ELSE 10 * ParseDigits(SubSeq(s, 1, Len(s) - 1)) + DigitValue(s[Len(s)])

\* pd.to_numeric(col, errors="coerce").fillna(0) on one cell
to_numeric_fillna0(c) ==
    CASE c.k \in {"int", "float"} -> c.n
      [] c.k = "nan" -> 0
      [] c.k = "str" ->
            LET t == Strip(c.s)
            IN  IF t # <<>> /\ \A i \in DOMAIN t : IsDigit(t[i]) THEN ParseDigits(t) ELSE 0

RECURSIVE SumSeq(_)
SumSeq(ns) == IF ns = <<>> THEN 0 ELSE Head(ns) + SumSeq(Tail(ns))

\* drop_duplicates(subset=key).set_index(key)[col].to_dict(): of the rows with
\* equal keys only the first is left before the dict is built (lines 300-305)
to_dict_first(keys, vals) ==
    [key \in {keys[i] : i \in DOMAIN keys} |->
        vals[CHOOSE i \in DOMAIN keys :
                 keys[i] = key /\ \A j \in DOMAIN keys : j < i => keys[j] # key]]

\* Series.to_dict() of a series with index keys[i] and values vals[i]: the items
\* are assigned in order, so the last of two equal keys stays
to_dict(keys, vals) ==
    [key \in {keys[i] : i \in DOMAIN keys} |->
        vals[CHOOSE i \in DOMAIN keys :
                 keys[i] = key /\ \A j \in DOMAIN keys : j > i => keys[j] # key]]

\* dict.get(key, default)
Get(d, key, default) == IF key \in DOMAIN d THEN d[key] ELSE default

----------------------------------------------------------------------------
(* create_commitment_sheet *)

\* lines 78, 84-85: the index (_bin_norm, _acct_norm) of a CDR row, both taken
\* from Account Number, which line 78 has already normalised
CdrKey(r) ==
    LET acct == norm_key(r.acct)
        bin_norm == norm_key(StrCell(acct))
        acct_norm == norm_key(StrCell(acct))
    IN  <<bin_norm, acct_norm>>

\* lines 76-89: the multi-key lookup
BuildMulti(cdr) ==
    to_dict([i \in DOMAIN cdr |-> CdrKey(cdr[i])],
            [i \in DOMAIN cdr |-> to_numeric_fillna0(cdr[i].commit)])

\* the Data_format rows loaded last row first
LoadDataFormat_reversed(rows) ==
    [i \in DOMAIN rows |->
        LET r == rows[Len(rows) + 1 - i]
        IN  [legal |-> Strip(Str(r.legal)), bin |-> r.bin, inv |-> r.inv,
             amount |-> to_numeric_fillna0(r.amount),
             bin_norm |-> norm_key(r.bin), inv_acct_norm |-> norm_key(r.inv)]]

\* lines 92-98: the Data_format rows as loaded
LoadDataFormat(rows) ==
    [i \in DOMAIN rows |->
        [legal |-> Strip(Str(rows[i].legal)),
         bin |-> rows[i].bin,
         inv |-> rows[i].inv,
         amount |-> to_numeric_fillna0(rows[i].amount),
         bin_norm |-> norm_key(rows[i].bin),
         inv_acct_norm |-> norm_key(rows[i].inv)]]

\* lookup_gs with a default of .get() that is no amount of the tables
lookup_gs_blank(multi, row) == Get(multi, <<row.bin_norm, row.inv_acct_norm>>, 0 - 1)

\* lookup_gs with the key made of the normalised Bin ID alone
lookup_gs_bin_only(multi, row) == Get(multi, <<row.bin_norm, row.bin_norm>>, 0)

\* lookup_gs(row), lines 101-103
lookup_gs(multi, row) == Get(multi, <<row.bin_norm, row.inv_acct_norm>>, 0)

\* lines 105-106 without the replacement of lines 109-112
ApplyLookup_keep(multi, d) ==
    [i \in DOMAIN d |->
        [legal |-> d[i].legal, bin |-> d[i].bin, inv |-> d[i].inv,
         amount |-> d[i].amount,
         bin_norm |-> d[i].bin_norm, inv_acct_norm |-> d[i].inv_acct_norm,
         gs |-> lookup_gs(multi, d[i]), check |-> 0]]

\* lines 105-112: GS Commitment, and Commitment Amount replaced where it is 0
ApplyLookup(multi, d) ==
    [i \in DOMAIN d |->
        LET gs == lookup_gs(multi, d[i])
        IN  [legal |-> d[i].legal, bin |-> d[i].bin, inv |-> d[i].inv,
             amount |-> IF d[i].amount = 0 /\ gs # 0 THEN gs ELSE d[i].amount,
             bin_norm |-> d[i].bin_norm, inv_acct_norm |-> d[i].inv_acct_norm,
             gs |-> gs, check |-> 0]]

Subtotal == <<"S", "u", "b", "t", "o", "t", "a", "l">>

\* str.contains("Subtotal") with case=True
IsSubtotal_cased(legal) == Contains(legal, Subtotal)

\* line 115: str.contains("Subtotal", case=False)
IsSubtotal(legal) == Contains(Lower(legal), Lower(Subtotal))

\* line 116: the positions of the subtotal rows, ascending
subtotal_indices(d) == SelectSeq([i \in DOMAIN d |-> i], LAMBDA i : IsSubtotal(d[i].legal))

\* the loop with start_idx = idx at line 128: the next section starts at the marker
RECURSIVE SubtotalSections_overlap(_, _)
SubtotalSections_overlap(idxs, start_idx) ==
    IF idxs = <<>> THEN <<>>
    ELSE <<<<start_idx, Head(idxs)>>>> \o SubtotalSections_overlap(Tail(idxs), Head(idxs))

\* lines 118-119 and 128: the iterations of the loop over the subtotal rows, each
\* the <<start_idx, idx>> it runs with
RECURSIVE SubtotalSections(_, _)
SubtotalSections(idxs, start_idx) ==
    IF idxs = <<>> THEN <<>>
    ELSE <<<<start_idx, Head(idxs)>>>> \o SubtotalSections(Tail(idxs), Head(idxs) + 1)

\* lines 120-126: the body of the loop, run for the iterations secs in order
RECURSIVE WriteTotals(_, _)
WriteTotals(d, secs) ==
    IF secs = <<>> THEN d
    ELSE LET start_idx == Head(secs)[1]
             idx == Head(secs)[2]
             section == SubSeq(d, start_idx, idx - 1)
             total_commit == SumSeq([i \in DOMAIN section |-> section[i].amount])
             total_gs_commit == SumSeq([i \in DOMAIN section |-> section[i].gs])
             d2 == [d EXCEPT ![idx].amount = total_commit,
                             ![idx].gs = total_gs_commit,
                             ![idx].check = total_commit - total_gs_commit]
         IN  WriteTotals(d2, Tail(secs))

\* the loop with every section starting at the first row: running totals
SubtotalLoop_running(d, idxs, start_idx) ==
    WriteTotals(d, [k \in DOMAIN idxs |-> <<start_idx, idxs[k]>>])

\* lines 118-128: the loop over the subtotal rows
SubtotalLoop(d, idxs, start_idx) == WriteTotals(d, SubtotalSections(idxs, start_idx))

\* the table without line 130: GS Check as the loop left it
GsCheck_skip(d) == d

\* line 130
GsCheck(d) == [i \in DOMAIN d |-> [d[i] EXCEPT !.check = d[i].amount - d[i].gs]]

\* lines 76-130: the detail table after the subtotal pass
ProcessDetail(multi, rows) ==
    LET d0 == LoadDataFormat(rows)
        d1 == ApplyLookup(multi, d0)
        d2 == SubtotalLoop(d1, subtotal_indices(d1), 1)
    IN  GsCheck(d2)

\* lines 133-138: Commitment Amount summed per non-empty normalised Bin ID
ss_source(d) ==
    LET keys == {d[i].bin_norm : i \in DOMAIN d} \ {<<>>}
    IN  [key \in keys |->
            SumSeq([i \in DOMAIN d |-> IF d[i].bin_norm = key THEN d[i].amount ELSE 0])]

NullWords == {<<"N","A","N">>, <<"N","O","N","E">>, <<"N","U","L","L">>,
              <<"P","D",".","N","A">>, <<"<","N","A",">">>, <<"N","A">>,
              <<"N","/","A">>}

\* lines 144-153: the Account Number of an investern_format row
InvesternAccount(c) ==
    LET s == Upper(Strip(Str(c)))
    IN  IF s \in NullWords THEN <<>> ELSE s

\* lines 140-166: the investern_format rows with SS Commitment and SS Check
LoadInvestern(rows, d) ==
    [i \in DOMAIN rows |->
        LET acct == InvesternAccount(rows[i].acct)
            commit == to_numeric_fillna0(rows[i].commit)
            ss == Get(ss_source(d), norm_key(StrCell(acct)), 0)
        IN  [vehicle |-> rows[i].vehicle, acct |-> acct, commit |-> commit,
             ss |-> ss, sscheck |-> ss - commit]]

NullStrings == {<<"N","a","N">>, <<"<","N","A",">">>, <<"N","o","n","e">>,
                <<"N","U","L","L">>, <<"n","a","n">>}

Blank == StrCell(<<>>)

\* clean_dataframe on one cell, lines 61-65
clean_cell(c) == IF IsNa(c) \/ (c.k = "str" /\ c.s \in NullStrings) THEN Blank ELSE c

Max(a, b) == IF a >= b THEN a ELSE b

SSTotalLabel == <<"S","u","b","t","o","t","a","l"," ","(","S","S"," ","T","o","t","a","l",")">>

\* lines 168-201: both tables side by side, padded to the longer one, the SS
\* subtotal row appended, the helper columns dropped, the cells cleaned (the three
\* spacer columns, always empty, are not carried)
Combine(d, inve) ==
    LET max_rows == Max(Len(d), Len(inve))
        left(i) ==
            IF i <= Len(d)
            THEN [legal |-> clean_cell(StrCell(d[i].legal)), bin |-> clean_cell(d[i].bin),
                  inv |-> clean_cell(d[i].inv), amount |-> IntCell(d[i].amount),
                  gs |-> IntCell(d[i].gs), check |-> IntCell(d[i].check)]
            ELSE [legal |-> Blank, bin |-> Blank, inv |-> Blank, amount |-> Blank,
                  gs |-> Blank, check |-> Blank]
        right(i) ==
            IF i <= Len(inve)
            THEN [vehicle |-> clean_cell(inve[i].vehicle),
                  acct |-> clean_cell(StrCell(inve[i].acct)),
                  commit |-> IntCell(inve[i].commit), ss |-> IntCell(inve[i].ss),
                  sscheck |-> IntCell(inve[i].sscheck)]
            ELSE [vehicle |-> Blank, acct |-> Blank, commit |-> Blank, ss |-> Blank,
                  sscheck |-> Blank]
        ss_total_commit == SumSeq([i \in DOMAIN inve |-> inve[i].ss])
        ss_total_invest == SumSeq([i \in DOMAIN inve |-> inve[i].commit])
        subtotal_row ==
            [left |-> left(max_rows + 1),
             right |-> [vehicle |-> StrCell(SSTotalLabel), acct |-> Blank,
                        commit |-> IntCell(ss_total_invest),
                        ss |-> IntCell(ss_total_commit),
                        sscheck |-> IntCell(ss_total_commit - ss_total_invest)]]
    IN  [i \in 1..max_rows |-> [left |-> left(i), right |-> right(i)]] \o <<subtotal_row>>

\* create_commitment_sheet(), lines 71-208
CreateCommitmentSheet ==
    /\ pc = "main"
    /\ acct_to_commit_multi' = BuildMulti(cdr_file_data)
    /\ df' = ProcessDetail(acct_to_commit_multi', data_format)
    /\ sections' = SubtotalSections(subtotal_indices(df'), 1)
    /\ combined_df' = Combine(df', LoadInvestern(investern_format, df'))
    /\ pc' = "commitment"
    /\ UNCHANGED <<cdr_file_data, data_format, investern_format, allocation_data,
                   id_to_amt, entry_df>>
    /\ UNCHANGED normVars
    /\ UNCHANGED <<lockVars, backendVars, appVars>>

----------------------------------------------------------------------------
(* create_entry_sheet_with_subtotals *)

VehicleInvestor == <<"V","e","h","i","c","l","e","/","I","n","v","e","s","t","o","r">>
InvestorID == <<"I","n","v","e","s","t","o","r"," ","I","D">>

\* lines 275-277: the positions (from 0) of the rows whose first cell is the header text
header_rows(raw) ==
    SelectSeq([i \in DOMAIN raw |-> i - 1], LAMBDA h : Str(raw[h + 1].c0) = VehicleInvestor)

\* clean_headers on one header cell that no earlier header equals, lines 214-225
clean_header(c, i) ==
    IF ~IsNa(c) /\ Strip(Str(c)) # <<>> THEN Strip(Str(c))
    ELSE <<"U","n","n","a","m","e","d","_">> \o Digits(i)

\* the comparison of find_col, lines 21-30
SameCol(name, target) ==
    RemoveChars(Lower(Strip(name)), {" "}) = RemoveChars(Lower(Strip(target)), {" "})

\* lines 286-293: whether the allocation data has an Investor ID column
HasIdCol(raw) ==
    /\ header_rows(raw) # <<>>
    /\ SameCol(clean_header(raw[Head(header_rows(raw)) + 1].c1, 1), InvestorID)

\* lines 297-305: normalised Investran Acct ID -> Bin ID, the first row of each key
id_to_bin(cm) ==
    to_dict_first([i \in DOMAIN cm |-> norm_key(cm[i].left.inv)],
                  [i \in DOMAIN cm |-> cm[i].left.bin])

\* the value a cell adds to a sum of a numeric column (an empty cell adds nothing)
NumValue(c) == IF c.k \in {"int", "float"} THEN c.n ELSE 0

\* lines 307-308: the normalised Account Number of a CDR row
bin_id_form(c) == norm_key(StrCell(Upper(Str(c))))

\* lines 307-314: groupby(_bin_id_form)["Investor Commitment"].sum().to_dict()
BuildIdToAmt(cdr) ==
    LET keys == {bin_id_form(cdr[i].acct) : i \in DOMAIN cdr}
    IN  [key \in keys |->
            SumSeq([i \in DOMAIN cdr |->
                IF bin_id_form(cdr[i].acct) = key THEN NumValue(cdr[i].commit) ELSE 0])]

\* lines 295, 316-320: the allocation rows with _id_norm, Bin ID and Commitment Amount
FillEntry(rows, cm, amt) ==
    [i \in DOMAIN rows |->
        LET id_norm == norm_key(rows[i].c1)
            bin == Get(id_to_bin(cm), id_norm, NaN)
        IN  [c0 |-> rows[i].c0, id |-> rows[i].c1, id_norm |-> id_norm, bin |-> bin,
             amount |-> IF ~IsNa(bin) /\ Strip(Str(bin)) # <<>>
                        THEN (IF norm_key(bin) \in DOMAIN amt
                              THEN IntCell(amt[norm_key(bin)]) ELSE Blank)
                        ELSE Blank]]

\* a cell pd.to_numeric(errors="coerce") turns into a number
IsNumeric(c) ==
    \/ c.k \in {"int", "float"}
    \/ c.k = "str" /\ Strip(c.s) # <<>> /\ \A i \in DOMAIN Strip(c.s) : IsDigit(Strip(c.s)[i])

\* lines 372-385: the subtotal row of a block
BlockSubtotal(block, id_name) ==
    LET total(cells) ==
            IF \E i \in DOMAIN cells : IsNumeric(cells[i])
            THEN IntCell(SumSeq([i \in DOMAIN cells |-> to_numeric_fillna0(cells[i])]))
            ELSE Blank
    IN  [c0 |-> StrCell(Subtotal),
         id |-> IF id_name = InvestorID THEN Blank
                ELSE total([i \in DOMAIN block |-> block[i].id]),
         id_norm |-> <<>>,
         bin |-> total([i \in DOMAIN block |-> block[i].bin]),
         amount |-> total([i \in DOMAIN block |-> block[i].amount])]

Min(a, b) == IF a <= b THEN a ELSE b

\* lines 353-358: block i of the table t (the rows left once the first header row
\* is dropped), before its first row is dropped: df_raw.loc[start:end]
RawBlock(t, hs, i) ==
    LET start == hs[i]
        end == IF i + 1 <= Len(hs) THEN hs[i + 1] ELSE Len(t)
    IN  SubSeq(t, start + 1, Min(end + 1, Len(t)))

\* lines 353-389: the blocks, each without its first row and with its subtotal row
RECURSIVE Blocks(_, _, _, _)
Blocks(t, hs, i, id_name) ==
    IF i > Len(hs) THEN <<>>
    ELSE LET block == Tail(RawBlock(t, hs, i))
         IN  block \o <<BlockSubtotal(block, id_name)>> \o Blocks(t, hs, i + 1, id_name)

\* lines 247-262: whether remove_empty_or_zero_columns drops a column with these cells
DropsColumn(cells) ==
    LET empty(c) == IsNa(c) \/ c = Blank
    IN  IF \E i \in DOMAIN cells : ~empty(cells[i]) /\ IsNumeric(cells[i])
        THEN \A i \in DOMAIN cells : to_numeric_fillna0(cells[i]) = 0
        ELSE \A i \in DOMAIN cells : empty(cells[i])

\* lines 389-392: the final table: the columns kept and the cleaned rows
FinalEntry(rows) ==
    [columns |-> {"Vehicle/Investor"}
                 \cup (IF DropsColumn([i \in DOMAIN rows |-> rows[i].id])
                       THEN {} ELSE {"Investor ID"})
                 \cup (IF DropsColumn([i \in DOMAIN rows |-> rows[i].bin])
                       THEN {} ELSE {"Bin ID"})
                 \cup (IF DropsColumn([i \in DOMAIN rows |-> rows[i].amount])
                       THEN {} ELSE {"Commitment Amount"}),
     rows |-> [i \in DOMAIN rows |->
                 [c0 |-> clean_cell(rows[i].c0), id |-> clean_cell(rows[i].id),
                  bin |-> clean_cell(rows[i].bin), amount |-> clean_cell(rows[i].amount)]]]

\* the rows of allocation_data once the first header row is dropped, line 289
DropHeader(raw) ==
    LET h == Head(header_rows(raw))
    IN  SubSeq(raw, 1, h) \o SubSeq(raw, h + 2, Len(raw))

\* lines 291-293 and 358: the calls that raise KeyError
EntryRaises(raw) ==
    \/ ~HasIdCol(raw)
    \/ \E i \in DOMAIN header_rows(raw) :
           RawBlock(DropHeader(raw), header_rows(raw), i) = <<>>

NoEntry == [columns |-> {}, rows |-> <<>>]

\* create_entry_sheet_with_subtotals(commitment_df), lines 268-397
CreateEntrySheet ==
    /\ pc = "commitment"
    /\ IF EntryRaises(allocation_data)
       THEN /\ pc' = "error"
            /\ UNCHANGED <<id_to_amt, entry_df>>
       ELSE LET amt == BuildIdToAmt(cdr_file_data)
                filled == FillEntry(DropHeader(allocation_data), combined_df, amt)
                id_name == clean_header(
                               allocation_data[Head(header_rows(allocation_data)) + 1].c1, 1)
            IN  /\ id_to_amt' = amt
                /\ entry_df' = FinalEntry(
                                   Blocks(filled, header_rows(allocation_data), 1, id_name))
                /\ pc' = "done"
    /\ UNCHANGED <<cdr_file_data, data_format, investern_format, allocation_data,
                   acct_to_commit_multi, df, sections, combined_df>>
    /\ UNCHANGED normVars
    /\ UNCHANGED <<lockVars, backendVars, appVars>>

----------------------------------------------------------------------------
(* The norm_key harness *)

NormOnce ==
    /\ npc = "in"
    /\ y' = norm_key(x)
    /\ npc' = "once"
    /\ UNCHANGED <<x, z>>
    /\ UNCHANGED sheetVars
    /\ UNCHANGED <<lockVars, backendVars, appVars>>

NormTwice ==
    /\ npc = "once"
    /\ z' = norm_key(StrCell(y))
    /\ npc' = "twice"
    /\ UNCHANGED <<x, y>>
    /\ UNCHANGED sheetVars
    /\ UNCHANGED <<lockVars, backendVars, appVars>>

----------------------------------------------------------------------------
(* update_shared_excel_with_kpi (src/hashing.py): the invocations Users run    *)
(* against one shared drive, one step per file-system call                     *)

Users == 1..NumUsers

AccessDenied == "Access denied. Shared drive not found."
AnotherUser == "Another user is editing. Try again later."
FileModified == "File modified by another user. Update aborted."
FileUpdated == "File updated successfully."
ErrorStatus == "Error: "

\* the value line 63 assigns to rows_added
HardCodedRows == 30

NoResult == [status |-> "", rows_added |-> 0]

\* get_file_hash(file_path), lines 31-36: the digest of the bytes of the file, of
\* no bytes when the file does not exist (a digest stands for the content it is of)
get_file_hash == IF file_present THEN <<"sha256", file_rows>> ELSE <<"sha256">>

\* lines 27-28
CheckAccess(u) ==
    /\ upc[u] = "call"
    /\ IF drive_exists
       THEN upc' = [upc EXCEPT ![u] = "check_lock"] /\ UNCHANGED result
       ELSE /\ upc' = [upc EXCEPT ![u] = "returned"]
            /\ result' = [result EXCEPT ![u].status = AccessDenied]
    /\ UNCHANGED <<drive_exists, lock_file, file_present, file_rows, initial_hash,
                   rows_written>>
    /\ UNCHANGED <<normVars, sheetVars, backendVars, appVars>>

\* lines 43-44: os.path.exists(lock_file)
CheckLock(u) ==
    /\ upc[u] = "check_lock"
    /\ IF lock_file
       THEN /\ upc' = [upc EXCEPT ![u] = "returned"]
            /\ result' = [result EXCEPT ![u].status = AnotherUser]
       ELSE upc' = [upc EXCEPT ![u] = "create_lock"] /\ UNCHANGED result
    /\ UNCHANGED <<drive_exists, lock_file, file_present, file_rows, initial_hash,
                   rows_written>>
    /\ UNCHANGED <<normVars, sheetVars, backendVars, appVars>>

\* line 45: open(lock_file, "w").close()
CreateLock(u) ==
    /\ upc[u] = "create_lock"
    /\ lock_file' = TRUE
    /\ upc' = [upc EXCEPT ![u] = "hash"]
    /\ UNCHANGED <<drive_exists, file_present, file_rows, initial_hash, result,
                   rows_written>>
    /\ UNCHANGED <<normVars, sheetVars, backendVars, appVars>>

\* lines 48-50, before the try: the file is read for its digest and its size;
\* reading an existing file may raise, and the exception leaves the function
InitialHash(u) ==
    /\ upc[u] = "hash"
    /\ \E raises \in {FALSE, file_present} :
           IF raises
           THEN upc' = [upc EXCEPT ![u] = "raised"] /\ UNCHANGED initial_hash
           ELSE /\ initial_hash' = [initial_hash EXCEPT ![u] = get_file_hash]
                /\ upc' = [upc EXCEPT ![u] = "load"]
    /\ UNCHANGED <<drive_exists, lock_file, file_present, file_rows, result,
                   rows_written>>
    /\ UNCHANGED <<normVars, sheetVars, backendVars, appVars>>

\* lines 54-57 and 85-86: pd.read_excel of an existing file may raise
LoadExcel(u) ==
    /\ upc[u] = "load"
    /\ \E raises \in {FALSE, file_present} :
           IF raises
           THEN /\ result' = [result EXCEPT ![u].status = ErrorStatus]
                /\ upc' = [upc EXCEPT ![u] = "finally"]
           ELSE upc' = [upc EXCEPT ![u] = "verify"] /\ UNCHANGED result
    /\ UNCHANGED <<drive_exists, lock_file, file_present, file_rows, initial_hash,
                   rows_written>>
    /\ UNCHANGED <<normVars, sheetVars, backendVars, appVars>>

\* lines 59-83: the append and the save are comments (lines 59-62, 65-66), so
\* nothing is written; rows_added is the literal of line 63; the digest is taken
\* again and compared
VerifyHash(u) ==
    /\ upc[u] = "verify"
    /\ LET rows_added == HardCodedRows
           final_hash == get_file_hash
       IN  IF final_hash # initial_hash[u]
           THEN result' = [result EXCEPT ![u].status = FileModified]
           ELSE result' = [result EXCEPT ![u] =
                              [status |-> FileUpdated, rows_added |-> rows_added]]
    /\ upc' = [upc EXCEPT ![u] = "finally"]
    /\ UNCHANGED <<drive_exists, lock_file, file_present, file_rows, initial_hash,
                   rows_written>>
    /\ UNCHANGED <<normVars, sheetVars, backendVars, appVars>>

\* lines 88-91: the finally block
ReleaseLock(u) ==
    /\ upc[u] = "finally"
    /\ lock_file' = FALSE
    /\ upc' = [upc EXCEPT ![u] = "returned"]
    /\ UNCHANGED <<drive_exists, file_present, file_rows, initial_hash, result,
                   rows_written>>
    /\ UNCHANGED <<normVars, sheetVars, backendVars, appVars>>

\* a user who edits the file without this function saves it with one more row
\* (the modification line 73 looks for)
OtherUserSaves ==
    /\ drive_exists
    /\ file_rows < MaxFileRows
    /\ file_present' = TRUE
    /\ file_rows' = file_rows + 1
    /\ UNCHANGED <<drive_exists, lock_file, upc, initial_hash, result, rows_written>>
    /\ UNCHANGED <<normVars, sheetVars, backendVars, appVars>>

\* no invocation of update_shared_excel_with_kpi is running
LockIdle ==
    /\ drive_exists = FALSE
    /\ lock_file = FALSE
    /\ file_present = FALSE
    /\ file_rows = 0
    /\ upc = [u \in Users |-> "idle"]
    /\ initial_hash = [u \in Users |-> <<>>]
    /\ result = [u \in Users |-> NoResult]
    /\ rows_written = [u \in Users |-> 0]

----------------------------------------------------------------------------
(* ExcelBackendProcessor (src/cdr_backend.py): load_data, preprocess_data and  *)
(* the three sheet-update tasks backend_process submits to a thread pool, one  *)
(* step per read or write of a field the tasks share. A data frame is a record *)
(* of its column names, in order, and its rows; the contribution, distribution *)
(* and expense columns preprocess_data merges in are not carried.              *)

BinID == "Bin ID"
CommitmentAmount == "Commitment Amount"
InvestranAcctID == "Investran Acct ID"
InvestorIDColumn == "Investor ID"
NoMatches == "No approximate matches found."

\* the column names preprocess_data tries for the account of a connection row,
\* lines 203-210
acct_col_candidates ==
    {"Investran Acct ID", "Investran AcctID", "Investran_Acct_ID", "Investor Acct ID",
     "Investor Account ID", "Account Number"}

Tasks == {"commitment", "entry", "approx"}

\* normalize_keys(series) on one cell, line 71
normalize_keys(c) == Upper(RemoveChars(Str(c), {" ", NBSP}))

\* the lambda normalize of preprocess_data on one cell, line 188
normalize(c) == Upper(RemoveChars(Str(c), {" ", NBSP}))

\* str.startswith
StartsWith(s, prefix) == Len(prefix) <= Len(s) /\ SubSeq(s, 1, Len(prefix)) = prefix

NoFrame == [columns |-> <<>>, rows |-> <<>>]
HasColumn(frame, name) == \E k \in DOMAIN frame.columns : frame.columns[k] = name

\* load_data(), lines 119-178
LoadData ==
    /\ bpc = "load_data"
    /\ cdr_sumary_df' = summary_sheet
    /\ investern_entry_df' = investern_sheet
    /\ conn_df' = conn_sheet
    /\ bpc' = "preprocess_data"
    /\ UNCHANGED <<summary_sheet, investern_sheet, conn_sheet, lookup_df, mapping, wb,
                   tpc, approx>>
    /\ UNCHANGED <<normVars, sheetVars, lockVars, appVars>>

\* lines 196-199: the Normalized Investor ID of the entry rows, "" on every row
\* when the frame has no column Investor ID
EntryNormalized(frame) ==
    [i \in DOMAIN frame.rows |->
        IF HasColumn(frame, InvestorIDColumn)
        THEN normalize(frame.rows[i].id)
        ELSE <<>>]

\* lines 201-218: the Normalized Investor ID of the connection rows, from the
\* first candidate column the frame has, from its first column when it has none
ConnNormalized(frame) ==
    [i \in DOMAIN frame.rows |->
        IF \E c \in acct_col_candidates : HasColumn(frame, c)
        THEN normalize(frame.rows[i].acct)
        ELSE normalize(frame.rows[i].bin)]

\* lines 220-236: Bin ID and Commitment of the entry rows, mapped from the
\* connection rows by Normalized Investor ID (dict(zip(...)): the last row of a
\* key stays; a key the map lacks gives an empty cell)
MapEntry(frame, conn) ==
    LET norm == EntryNormalized(frame)
        keys == ConnNormalized(conn)
        bin_id_map == to_dict(keys, [i \in DOMAIN keys |-> StrCell(Str(conn.rows[i].bin))])
        commitment_map ==
            to_dict(keys, [i \in DOMAIN keys |-> StrCell(Str(conn.rows[i].amount))])
    IN  [i \in DOMAIN frame.rows |->
            [frame.rows[i] EXCEPT !.norm_id = norm[i],
                                  !.bin = Get(bin_id_map, norm[i], NaN),
                                  !.commitment = Get(commitment_map, norm[i], NaN)]]

\* preprocess_data(), lines 180-431
PreprocessData ==
    /\ bpc = "preprocess_data"
    /\ investern_entry_df' =
           [investern_entry_df EXCEPT !.rows = MapEntry(investern_entry_df, conn_df)]
    /\ conn_df' =
           [conn_df EXCEPT !.rows =
               [i \in DOMAIN conn_df.rows |->
                   [conn_df.rows[i] EXCEPT !.norm_id = ConnNormalized(conn_df)[i]]]]
    /\ bpc' = "submit"
    /\ UNCHANGED <<summary_sheet, investern_sheet, conn_sheet, cdr_sumary_df,
                   lookup_df, mapping, wb, tpc, approx>>
    /\ UNCHANGED <<normVars, sheetVars, lockVars, appVars>>

\* backend_process(), lines 785-812: the workbook is loaded, its three sheets are
\* deleted (its other sheets are not carried) and the three tasks are submitted
SubmitTasks ==
    /\ bpc = "submit"
    /\ wb' = <<>>
    /\ tpc' = [commitment |-> "lookup_df", entry |-> "create", approx |-> "conn_keys"]
    /\ bpc' = "running"
    /\ UNCHANGED <<summary_sheet, investern_sheet, conn_sheet, cdr_sumary_df,
                   investern_entry_df, conn_df, lookup_df, mapping, approx>>
    /\ UNCHANGED <<normVars, sheetVars, lockVars, appVars>>

\* lines 441-453: lookup_df, the four lookup columns of the summary
CommitmentLookupDf ==
    /\ tpc.commitment = "lookup_df"
    /\ lookup_df' = [none |-> FALSE, rows |-> cdr_sumary_df.rows]
    /\ tpc' = [tpc EXCEPT !.commitment = "mapping"]
    /\ UNCHANGED <<summary_sheet, investern_sheet, conn_sheet, cdr_sumary_df,
                   investern_entry_df, conn_df, mapping, wb, bpc, approx>>
    /\ UNCHANGED <<normVars, sheetVars, lockVars, appVars>>

\* line 457: the normalised second column (Account Number) of lookup_df
lookup_keys(rows) == [i \in DOMAIN rows |-> normalize_keys(rows[i].acct)]

\* the keys of the dict lookup_values_as_tuples (lines 475-477) in the order a
\* loop over the dict gives them: every key once, at its first position
RECURSIVE DictKeys(_)
DictKeys(keys) ==
    IF keys = <<>> THEN <<>>
    ELSE LET front == DictKeys(SubSeq(keys, 1, Len(keys) - 1))
             last == keys[Len(keys)]
         IN  IF \E k \in DOMAIN front : front[k] = last THEN front ELSE Append(front, last)

\* lines 474-481: dict(zip(lookup_keys, lookup_values_as_tuples)) pairs the
\* lookup keys with the keys of that dict, up to the shorter of the two
Mapping(rows) ==
    LET keys == lookup_keys(rows)
        dict_keys == DictKeys(keys)
    IN  to_dict(SubSeq(keys, 1, Len(dict_keys)),
                [i \in DOMAIN dict_keys |-> StrCell(dict_keys[i])])

\* lines 455-483
CommitmentMapping ==
    /\ tpc.commitment = "mapping"
    /\ mapping' = Mapping(lookup_df.rows)
    /\ tpc' = [tpc EXCEPT !.commitment = "match"]
    /\ UNCHANGED <<summary_sheet, investern_sheet, conn_sheet, cdr_sumary_df,
                   investern_entry_df, conn_df, lookup_df, wb, bpc, approx>>
    /\ UNCHANGED <<normVars, sheetVars, lockVars, appVars>>

\* match_key(key), lines 486-498: the mapped value (an empty cell for None) and
\* the match type
match_key(key, keys, map) ==
    IF key \in DOMAIN map THEN [value |-> map[key], type |-> "-"]
    ELSE IF \E k \in DOMAIN keys : StartsWith(keys[k], key) \/ Contains(keys[k], key)
    THEN LET k == CHOOSE k \in DOMAIN keys :
                      /\ StartsWith(keys[k], key) \/ Contains(keys[k], key)
                      /\ \A j \in 1..(k - 1) :
                             ~(StartsWith(keys[j], key) \/ Contains(keys[j], key))
         IN  [value |-> Get(map, keys[k], NaN),
              type |-> IF StartsWith(keys[k], key) THEN "StartsWith" ELSE "Contains"]
    ELSE [value |-> NaN, type |-> "NA"]

\* line 507: t[2] if t is a list or a tuple of more than two items, else None
GsCommitment(t) == IF t.k = "tuple" /\ Len(t.items) > 2 THEN t.items[3] ELSE NaN

\* lines 463-469 and 500-508: GS Commitment and Match Type of the connection rows
MatchRows(rows, keys, map) ==
    [i \in DOMAIN rows |->
        LET mr == match_key(normalize_keys(StrCell(Str(rows[i].bin))), keys, map)
        IN  [rows[i] EXCEPT !.gs = GsCommitment(mr.value), !.match = mr.type]]

\* lines 500-546 (the columns GS Check, SS Commitment, SS Check and the inserted
\* lookup columns are not carried)
CommitmentMatch ==
    /\ tpc.commitment = "match"
    /\ conn_df' = [conn_df EXCEPT
                      !.rows = MatchRows(conn_df.rows, lookup_keys(lookup_df.rows), mapping)]
    /\ tpc' = [tpc EXCEPT !.commitment = "subtotal"]
    /\ UNCHANGED <<summary_sheet, investern_sheet, conn_sheet, cdr_sumary_df,
                   investern_entry_df, lookup_df, mapping, wb, bpc, approx>>
    /\ UNCHANGED <<normVars, sheetVars, lockVars, appVars>>

\* lines 549-559: "Subtotal" in the first column, the sums in the numeric
\* columns, "" in the others
subtotal_row(rows) ==
    [bin |-> StrCell(Subtotal), acct |-> Blank,
     amount |-> IntCell(SumSeq([i \in DOMAIN rows |-> to_numeric_fillna0(rows[i].amount)])),
     norm_id |-> <<>>,
     gs |-> IntCell(SumSeq([i \in DOMAIN rows |-> to_numeric_fillna0(rows[i].gs)])),
     match |-> ""]

\* lines 548-563: the subtotal row is appended to conn_df
CommitmentSubtotal ==
    /\ tpc.commitment = "subtotal"
    /\ conn_df' = [conn_df EXCEPT !.rows = Append(conn_df.rows, subtotal_row(conn_df.rows))]
    /\ tpc' = [tpc EXCEPT !.commitment = "write"]
    /\ UNCHANGED <<summary_sheet, investern_sheet, conn_sheet, cdr_sumary_df,
                   investern_entry_df, lookup_df, mapping, wb, bpc, approx>>
    /\ UNCHANGED <<normVars, sheetVars, lockVars, appVars>>

Sheet(title, rows, total, text) ==
    [title |-> title, rows |-> rows, total |-> total, text |-> text]

\* lines 565-574: the sheet Commitment is created and conn_df written to it
CommitmentWrite ==
    /\ tpc.commitment = "write"
    /\ wb' = Append(wb, Sheet("Commitment", conn_df.rows, 0, ""))
    /\ tpc' = [tpc EXCEPT !.commitment = "done"]
    /\ UNCHANGED <<summary_sheet, investern_sheet, conn_sheet, cdr_sumary_df,
                   investern_entry_df, conn_df, lookup_df, mapping, bpc, approx>>
    /\ UNCHANGED <<normVars, sheetVars, lockVars, appVars>>

\* lines 621-625: the sheet Entry is created
EntryCreate ==
    /\ tpc.entry = "create"
    /\ wb' = Append(wb, Sheet("Entry", <<>>, 0, ""))
    /\ tpc' = [tpc EXCEPT !.entry = "write"]
    /\ UNCHANGED <<summary_sheet, investern_sheet, conn_sheet, cdr_sumary_df,
                   investern_entry_df, conn_df, lookup_df, mapping, bpc, approx>>
    /\ UNCHANGED <<normVars, sheetVars, lockVars, appVars>>

\* lines 673-674: the Commitment Amount of conn_df without its last row, summed
commitment_sum(rows) ==
    SumSeq([i \in 1..(Len(rows) - 1) |-> to_numeric_fillna0(rows[i].amount)])

\* lines 627-723: the entry rows are written, and in the row Subtotals the sum
\* of the connection amounts under Commitment
EntryWrite ==
    /\ tpc.entry = "write"
    /\ LET k == CHOOSE k \in DOMAIN wb : wb[k].title = "Entry"
       IN  wb' = [wb EXCEPT ![k] = Sheet("Entry", investern_entry_df.rows,
                                         commitment_sum(conn_df.rows), "")]
    /\ tpc' = [tpc EXCEPT !.entry = "done"]
    /\ UNCHANGED <<summary_sheet, investern_sheet, conn_sheet, cdr_sumary_df,
                   investern_entry_df, conn_df, lookup_df, mapping, bpc, approx>>
    /\ UNCHANGED <<normVars, sheetVars, lockVars, appVars>>

\* lines 730-733: the normalised Bin ID of the rows of conn_df
ApproxConnKeys ==
    /\ tpc.approx = "conn_keys"
    /\ approx' = [approx EXCEPT
                     !.conn_keys = [i \in DOMAIN conn_df.rows |->
                                       normalize_keys(StrCell(Str(conn_df.rows[i].bin)))]]
    /\ tpc' = [tpc EXCEPT !.approx = "lookup_keys"]
    /\ UNCHANGED <<summary_sheet, investern_sheet, conn_sheet, cdr_sumary_df,
                   investern_entry_df, conn_df, lookup_df, mapping, wb, bpc>>
    /\ UNCHANGED <<normVars, sheetVars, lockVars, appVars>>

\* lines 735-738: the lookup keys, none while lookup_df is None (the attribute
\* error is caught) or empty
ApproxLookupKeys ==
    /\ tpc.approx = "lookup_keys"
    /\ approx' = [approx EXCEPT
                     !.lookup_keys = IF lookup_df.none THEN <<>>
                                     ELSE lookup_keys(lookup_df.rows)]
    /\ tpc' = [tpc EXCEPT !.approx = "match"]
    /\ UNCHANGED <<summary_sheet, investern_sheet, conn_sheet, cdr_sumary_df,
                   investern_entry_df, conn_df, lookup_df, mapping, wb, bpc>>
    /\ UNCHANGED <<normVars, sheetVars, lockVars, appVars>>

\* lines 740-752: for every connection key the first lookup key that starts
\* with it or contains it, kept when the key and its mapped value are not empty
RECURSIVE approx_matches(_, _, _)
approx_matches(keys, lks, map) ==
    IF keys = <<>> THEN <<>>
    ELSE LET key == Head(keys)
             hits == {k \in DOMAIN lks : StartsWith(lks[k], key) \/ Contains(lks[k], key)}
             lk == IF hits = {} THEN <<>>
                   ELSE lks[CHOOSE k \in hits : \A j \in hits : k <= j]
             value == Get(map, lk, NaN)
             rest == approx_matches(Tail(keys), lks, map)
         IN  IF lk # <<>> /\ ~IsNa(value) /\ value.s # <<>>
             THEN <<[conn_key |-> key, lookup_key |-> lk, value |-> value]>> \o rest
             ELSE rest

ApproxMatch ==
    /\ tpc.approx = "match"
    /\ approx' = [approx EXCEPT
                     !.matches = approx_matches(approx.conn_keys, approx.lookup_keys, mapping)]
    /\ tpc' = [tpc EXCEPT !.approx = "write"]
    /\ UNCHANGED <<summary_sheet, investern_sheet, conn_sheet, cdr_sumary_df,
                   investern_entry_df, conn_df, lookup_df, mapping, wb, bpc>>
    /\ UNCHANGED <<normVars, sheetVars, lockVars, appVars>>

\* lines 754-773: the sheet Approx Matches, with the matches or with the note
\* that there are none
ApproxWrite ==
    /\ tpc.approx = "write"
    /\ wb' = Append(wb, IF approx.matches # <<>>
                        THEN Sheet("Approx Matches", approx.matches, 0, "")
                        ELSE Sheet("Approx Matches", <<>>, 0, NoMatches))
    /\ tpc' = [tpc EXCEPT !.approx = "done"]
    /\ UNCHANGED <<summary_sheet, investern_sheet, conn_sheet, cdr_sumary_df,
                   investern_entry_df, conn_df, lookup_df, mapping, bpc, approx>>
    /\ UNCHANGED <<normVars, sheetVars, lockVars, appVars>>

\* lines 813-825: the pool is left when the three tasks are over, and the
\* workbook is saved
SaveWorkbook ==
    /\ bpc = "running"
    /\ \A t \in Tasks : tpc[t] = "done"
    /\ bpc' = "saved"
    /\ UNCHANGED <<summary_sheet, investern_sheet, conn_sheet, cdr_sumary_df,
                   investern_entry_df, conn_df, lookup_df, mapping, wb, tpc, approx>>
    /\ UNCHANGED <<normVars, sheetVars, lockVars, appVars>>

NoLookup == [none |-> TRUE, rows |-> <<>>]
NoApprox == [conn_keys |-> <<>>, lookup_keys |-> <<>>, matches |-> <<>>]
TasksIdle == [t \in Tasks |-> "idle"]

\* no ExcelBackendProcessor is running
BackendIdle ==
    /\ summary_sheet = NoFrame
    /\ investern_sheet = NoFrame
    /\ conn_sheet = NoFrame
    /\ cdr_sumary_df = NoFrame
    /\ investern_entry_df = NoFrame
    /\ conn_df = NoFrame
    /\ lookup_df = NoLookup
    /\ mapping = <<>>
    /\ wb = <<>>
    /\ bpc = "idle"
    /\ tpc = TasksIdle
    /\ approx = NoApprox

----------------------------------------------------------------------------
(* nocode.py: the 'GS conn' column of the Conn sheet *)

\* lines 91 and 96: astype(str).str.strip() of a key cell (fillna finds nothing
\* to fill: astype(str) has made "nan" of the empty cell)
lookup_key(c) == Strip(Str(c))

\* line 93 with a dict that keeps the first value given for a key
vlookup_mapping_first(rows) ==
    to_dict_first([i \in DOMAIN rows |-> lookup_key(rows[i].b)],
                  [i \in DOMAIN rows |-> rows[i].d])

\* lines 91-93: mapping = dict(zip(lookup_keys, lookup_values)), column B to column D
vlookup_mapping(rows) ==
    to_dict([i \in DOMAIN rows |-> lookup_key(rows[i].b)],
            [i \in DOMAIN rows |-> rows[i].d])

\* main(file1, file2), lines 40-45: a workbook is missing
MainReturns ==
    /\ mpc = "main"
    /\ ~file1.exists \/ ~file2.exists
    /\ mpc' = "returned"
    /\ UNCHANGED <<file1, file2, gs_conn>>
    /\ UNCHANGED <<coreVars, dashVars, seqVars, guiVars>>

\* main(file1, file2), lines 47-138: the Conn sheet with its GS conn column
Main ==
    /\ mpc = "main"
    /\ file1.exists /\ file2.exists
    /\ gs_conn' = [i \in DOMAIN file2.rows |->
                       Get(vlookup_mapping(file1.rows), lookup_key(file2.rows[i].f), NaN)]
    /\ mpc' = "success"
    /\ UNCHANGED <<file1, file2>>
    /\ UNCHANGED <<coreVars, dashVars, seqVars, guiVars>>

NoWorkbook == [exists |-> FALSE, rows |-> <<>>]

VlookupIdle ==
    /\ file1 = NoWorkbook
    /\ file2 = NoWorkbook
    /\ gs_conn = <<>>
    /\ mpc = "idle"

----------------------------------------------------------------------------
(* logging.py: the per-file dashboard, one thread per file of the directory *)

\* the macro files of the selected directory (line 177)
Files == 1..NumFiles

Pending == "Pending"
Running == "Running..."
Completed == "Completed"

EmptyDict == [f \in {} |-> Pending]

\* d[key] = value on a dict
Put(d, key, value) == [k \in DOMAIN d \cup {key} |-> IF k = key THEN value ELSE d[k]]

\* line 197 read on the dict d: all(status == "Completed" for status in d.values())
all_completed(d) == \A k \in DOMAIN d : d[k] = Completed

\* start_macros(), lines 165-191, with a user name, a password and a directory
\* of macro files: status_dict is filled with "Pending" (line 183) and emptied
\* again by clear_logs() (lines 186, 226-227), the button is disabled and one
\* thread per file is started
start_macros ==
    /\ start_btn = "normal"
    /\ \A f \in Files : mt[f] = "none"
    /\ status_dict' = EmptyDict
    /\ start_btn' = "disabled"
    /\ mt' = [f \in Files |-> "started"]
    /\ UNCHANGED <<seen, finish_calls>>
    /\ UNCHANGED <<coreVars, vlookupVars, seqVars, guiVars>>

\* update_status(macro_name, status), lines 200-204
update_status(f, status, next) ==
    /\ status_dict' = Put(status_dict, f, status)
    /\ mt' = [mt EXCEPT ![f] = next]
    /\ UNCHANGED <<start_btn, seen, finish_calls>>
    /\ UNCHANGED <<coreVars, vlookupVars, seqVars, guiVars>>

\* run_macro_thread, line 194
SetRunning(f) == mt[f] = "started" /\ update_status(f, Running, "operation")

\* run_macro_thread, line 195: perform_operation returns
PerformOperation(f) ==
    /\ mt[f] = "operation"
    /\ mt' = [mt EXCEPT ![f] = "operated"]
    /\ UNCHANGED <<status_dict, start_btn, seen, finish_calls>>
    /\ UNCHANGED <<coreVars, vlookupVars, seqVars, guiVars>>

\* run_macro_thread, line 196
SetCompleted(f) == mt[f] = "operated" /\ update_status(f, Completed, "check")

\* run_macro_thread, line 197: the iteration over status_dict.values() begins,
\* outside the lock
CheckBegin(f) ==
    /\ mt[f] = "check"
    /\ seen' = [seen EXCEPT ![f] = status_dict]
    /\ mt' = [mt EXCEPT ![f] = "iterating"]
    /\ UNCHANGED <<status_dict, start_btn, finish_calls>>
    /\ UNCHANGED <<coreVars, vlookupVars, seqVars, guiVars>>

\* run_macro_thread, line 197: the iteration ends. It has read the values as
\* they were when it began or as they are now; if the dict has changed size in
\* between it has read the old values or raised RuntimeError, which ends the
\* thread
CheckEnd(f) ==
    /\ mt[f] = "iterating"
    /\ LET same_size == Cardinality(DOMAIN status_dict) = Cardinality(DOMAIN seen[f])
           outcomes == IF same_size
                       THEN {all_completed(seen[f]), all_completed(status_dict)}
                       ELSE {all_completed(seen[f])}
       IN  \/ \E ok \in outcomes :
                 mt' = [mt EXCEPT ![f] = IF ok THEN "finish" ELSE "ended"]
           \/ ~same_size /\ mt' = [mt EXCEPT ![f] = "raised"]
    /\ UNCHANGED <<status_dict, start_btn, seen, finish_calls>>
    /\ UNCHANGED <<coreVars, vlookupVars, seqVars, guiVars>>

\* finish(), lines 241-252, called at line 198
Finish(f) ==
    /\ mt[f] = "finish"
    /\ start_btn' = "normal"
    /\ finish_calls' = finish_calls + 1
    /\ mt' = [mt EXCEPT ![f] = "ended"]
    /\ UNCHANGED <<status_dict, seen>>
    /\ UNCHANGED <<coreVars, vlookupVars, seqVars, guiVars>>

\* clear_logs(), lines 225-232: the button Clear
clear_logs ==
    /\ status_dict # EmptyDict
    /\ status_dict' = EmptyDict
    /\ UNCHANGED <<start_btn, mt, seen, finish_calls>>
    /\ UNCHANGED <<coreVars, vlookupVars, seqVars, guiVars>>

\* refresh_status(), lines 234-239: the button Refresh
refresh_status ==
    /\ \E k \in DOMAIN status_dict : status_dict[k] # Pending
    /\ status_dict' = [k \in DOMAIN status_dict |-> Pending]
    /\ UNCHANGED <<start_btn, mt, seen, finish_calls>>
    /\ UNCHANGED <<coreVars, vlookupVars, seqVars, guiVars>>

\* MacroToolApp(root), lines 8-57: no Start has been pressed
DashNew ==
    /\ status_dict = EmptyDict
    /\ start_btn = "normal"
    /\ mt = [f \in Files |-> "none"]
    /\ seen = [f \in Files |-> EmptyDict]
    /\ finish_calls = 0

----------------------------------------------------------------------------
(* sreeproject.py: the sequential dashboard. One thread runs the macros in    *)
(* order, the main loop of Tk runs the queued _set_status calls, and every    *)
(* macro gets a thread that animates its status                               *)

\* the macros of line 153, by index
Macros == 1..NumMacros

\* line 168: range(3); line 169: the three suffixes
DotRounds == 3
DotSuffixes == <<".", "..", "...">>

RunningValues == {"Running"} \cup {"Running" \o DotSuffixes[k] : k \in DOMAIN DotSuffixes}

\* line 170: "Running" in status
IsRunning(status) == status \in RunningValues

NoMacro == [i |-> 0, at |-> "idle"]
NoDots == [at |-> "none", n |-> 0]

\* start_macros(), lines 146-162, with a user name and a password
seq_start_macros ==
    /\ seq_start_btn = "normal"
    /\ rm = NoMacro
    /\ status_lines' = [i \in Macros |-> Pending]
    /\ seq_start_btn' = "disabled"
    /\ rm' = [i |-> 1, at |-> "update_running"]
    /\ UNCHANGED <<after_queue, dots>>
    /\ UNCHANGED <<coreVars, vlookupVars, dashVars, guiVars>>

\* run_macros line 18 and update_status lines 164-175 with animate=True: the
\* call of _set_status is queued and the dots thread is started
UpdateRunning ==
    /\ rm.at = "update_running"
    /\ after_queue' = Append(after_queue, [idx |-> rm.i, status |-> "Running"])
    /\ dots' = [dots EXCEPT ![rm.i] = [at |-> "check", n |-> 0]]
    /\ rm' = [rm EXCEPT !.at = "execute"]
    /\ UNCHANGED <<status_lines, seq_start_btn>>
    /\ UNCHANGED <<coreVars, vlookupVars, dashVars, guiVars>>

\* run_macros lines 19-26: the macro runs and its log is written
ExecuteMacro ==
    /\ rm.at = "execute"
    /\ rm' = [rm EXCEPT !.at = "update_completed"]
    /\ UNCHANGED <<status_lines, after_queue, dots, seq_start_btn>>
    /\ UNCHANGED <<coreVars, vlookupVars, dashVars, guiVars>>

\* run_macros line 27 and update_status lines 164-165 with animate=False, then
\* the next macro of the loop or line 28
UpdateCompleted ==
    /\ rm.at = "update_completed"
    /\ after_queue' = Append(after_queue, [idx |-> rm.i, status |-> Completed])
    /\ rm' = IF rm.i < NumMacros THEN [i |-> rm.i + 1, at |-> "update_running"]
                                 ELSE [rm EXCEPT !.at = "finish"]
    /\ UNCHANGED <<status_lines, dots, seq_start_btn>>
    /\ UNCHANGED <<coreVars, vlookupVars, dashVars, guiVars>>

\* run_macros line 28 and finish(), lines 214-217
FinishCallback ==
    /\ rm.at = "finish"
    /\ seq_start_btn' = "normal"
    /\ rm' = [rm EXCEPT !.at = "done"]
    /\ UNCHANGED <<status_lines, after_queue, dots>>
    /\ UNCHANGED <<coreVars, vlookupVars, dashVars, guiVars>>

\* _set_status(idx, status), lines 177-179, run by the main loop for the oldest
\* queued call
set_status ==
    /\ after_queue # <<>>
    /\ status_lines' = [status_lines EXCEPT ![Head(after_queue).idx] = Head(after_queue).status]
    /\ after_queue' = Tail(after_queue)
    /\ UNCHANGED <<rm, dots, seq_start_btn>>
    /\ UNCHANGED <<coreVars, vlookupVars, dashVars, guiVars>>

\* dots(), lines 168-171: the next iteration of the two loops, and its test
DotsCheck(i) ==
    /\ dots[i].at = "check"
    /\ dots' = [dots EXCEPT ![i].at =
                    IF dots[i].n < DotRounds * Len(DotSuffixes) /\ IsRunning(status_lines[i])
                    THEN "write" ELSE "returned"]
    /\ UNCHANGED <<status_lines, after_queue, rm, seq_start_btn>>
    /\ UNCHANGED <<coreVars, vlookupVars, dashVars, guiVars>>

\* dots(), lines 172-174: the status is written, then the thread sleeps
DotsWrite(i) ==
    /\ dots[i].at = "write"
    /\ status_lines' = [status_lines EXCEPT ![i] =
                            "Running" \o DotSuffixes[(dots[i].n % Len(DotSuffixes)) + 1]]
    /\ dots' = [dots EXCEPT ![i] = [at |-> "check", n |-> dots[i].n + 1]]
    /\ UNCHANGED <<after_queue, rm, seq_start_btn>>
    /\ UNCHANGED <<coreVars, vlookupVars, dashVars, guiVars>>

\* MacroToolApp(root), lines 31-56: no Start has been pressed
SeqNew ==
    /\ status_lines = <<>>
    /\ after_queue = <<>>
    /\ rm = NoMacro
    /\ dots = [i \in Macros |-> NoDots]
    /\ seq_start_btn = "normal"

----------------------------------------------------------------------------
(* starpio-gui.py: the window with the buttons of Frame 1, the menu and the   *)
(* content of Frame 2                                                          *)

\* line 52
securities == {"Security1", "Security2", "Security3", "Security4"}

\* lines 172 and 175: the success_message of the two updates
Masters == {"Security", "Unclassified"}

NoUpdate == [pending |-> FALSE, success_message |-> ""]
NoThreads == [live |-> 0, orphan |-> 0]

InFrame2(w) == \E k \in DOMAIN frame2 : frame2[k] = w

\* clear_frame2(), lines 206-208: every widget of Frame 2 is destroyed, the
\* label self.message_label refers to and the text box the waiting submit_file
\* threads have captured included
clear_frame2 ==
    /\ message_label' = IF message_label = "packed" THEN "destroyed" ELSE message_label
    /\ file_entry' = FALSE
    /\ submit_threads' = [live |-> 0, orphan |-> submit_threads.live + submit_threads.orphan]

\* show_home(), lines 81-86: the menu command Home
show_home ==
    /\ clear_frame2
    /\ frame2' = <<"Welcome to the Home Screen!">>
    /\ UNCHANGED <<frame1_buttons, after_update>>
    /\ UNCHANGED <<coreVars, vlookupVars, dashVars, seqVars>>

\* show_help(), lines 88-102: the menu command Help
show_help ==
    /\ clear_frame2
    /\ frame2' = <<"Help Section">>
    /\ UNCHANGED <<frame1_buttons, after_update>>
    /\ UNCHANGED <<coreVars, vlookupVars, dashVars, seqVars>>

\* update_frame2(button_id), lines 104-149: a security button of Frame 1
update_frame2(button_id) ==
    /\ frame1_buttons = "normal"
    /\ clear_frame2
    /\ frame2' = <<button_id, "input_frame", "Submit">>
    /\ UNCHANGED <<frame1_buttons, after_update>>
    /\ UNCHANGED <<coreVars, vlookupVars, dashVars, seqVars>>

\* browse_file(), lines 120-124, with a file chosen
browse_file ==
    /\ InFrame2("input_frame")
    /\ ~file_entry
    /\ file_entry' = TRUE
    /\ UNCHANGED <<frame1_buttons, frame2, message_label, after_update, submit_threads>>
    /\ UNCHANGED <<coreVars, vlookupVars, dashVars, seqVars>>

Warning == "Please select a file before submitting."

Warnings == Len(SelectSeq(frame2, LAMBDA w : w = Warning))

\* the button Submit, lines 138-139: a thread is started for submit_file
PressSubmit ==
    /\ InFrame2("Submit")
    /\ submit_threads.live + submit_threads.orphan + Warnings < MaxSubmits
    /\ submit_threads' = [submit_threads EXCEPT !.live = @ + 1]
    /\ UNCHANGED <<frame1_buttons, frame2, message_label, file_entry, after_update>>
    /\ UNCHANGED <<coreVars, vlookupVars, dashVars, seqVars>>

\* submit_file(), lines 129-136, while its text box exists
submit_file ==
    /\ submit_threads.live > 0
    /\ submit_threads' = [submit_threads EXCEPT !.live = @ - 1]
    /\ IF file_entry
       THEN file_entry' = FALSE /\ UNCHANGED frame2
       ELSE frame2' = Append(frame2, Warning) /\ UNCHANGED file_entry
    /\ UNCHANGED <<frame1_buttons, message_label, after_update>>
    /\ UNCHANGED <<coreVars, vlookupVars, dashVars, seqVars>>

\* submit_file(), line 130, after its text box was destroyed: file_entry.get()
\* raises TclError and the thread ends
submit_file_raises ==
    /\ submit_threads.orphan > 0
    /\ submit_threads' = [submit_threads EXCEPT !.orphan = @ - 1]
    /\ UNCHANGED <<frame1_buttons, frame2, message_label, file_entry, after_update>>
    /\ UNCHANGED <<coreVars, vlookupVars, dashVars, seqVars>>

\* run_with_loading_bar(loading_message, success_message), lines 177-191,
\* called by the two update buttons of Frame 1 (lines 171-175)
\* (clear_frame2 at line 179, then the new message label and the progress bar)
run_with_loading_bar(success_message) ==
    /\ frame1_buttons = "normal"
    /\ file_entry' = FALSE
    /\ submit_threads' = [live |-> 0, orphan |-> submit_threads.live + submit_threads.orphan]
    /\ frame1_buttons' = "disabled"
    /\ message_label' = "packed"
    /\ frame2' = <<"message_label", "progress">>
    /\ after_update' = [pending |-> TRUE, success_message |-> success_message]
    /\ UNCHANGED <<coreVars, vlookupVars, dashVars, seqVars>>

\* finish_update(progress, bg_color, success_message), lines 193-204, run by the
\* main loop when the 2000 ms are over: on a progress bar that was destroyed
\* progress.stop() raises TclError and the rest of the function does not run
finish_update ==
    /\ after_update.pending
    /\ after_update' = NoUpdate
    /\ IF InFrame2("progress")
       THEN /\ frame2' = <<"message_label", after_update.success_message>>
            /\ frame1_buttons' = "normal"
       ELSE UNCHANGED <<frame2, frame1_buttons>>
    /\ UNCHANGED <<message_label, file_entry, submit_threads>>
    /\ UNCHANGED <<coreVars, vlookupVars, dashVars, seqVars>>

\* Application(), lines 6-24: the window shows the home screen
GuiNew ==
    /\ frame1_buttons = "normal"
    /\ frame2 = <<"Welcome to the Home Screen!">>
    /\ message_label = "None"
    /\ file_entry = FALSE
    /\ after_update = NoUpdate
    /\ submit_threads = NoThreads

\* the programs of the other source files are not running
AppIdle == VlookupIdle /\ DashNew /\ SeqNew /\ GuiNew

----------------------------------------------------------------------------
(* Inputs *)

\* the sequences over S of length lo..hi
SeqsOf(S, lo, hi) == UNION {[1..n -> S] : n \in lo..hi}

Alphabet == {"a", "B", "1", "0", ".", ",", "-", " ", NBSP}

S1023dot0 == <<"1", "0", "2", "3", ".", "0">>
S1comma023 == <<"1", ",", "0", "2", "3">>
Sp1023sp == <<" ", "1", "0", "2", "3", " ">>
S1023 == <<"1", "0", "2", "3">>

NormInputs ==
    {NaN}
    \cup {StrCell(s) : s \in SeqsOf(Alphabet, 0, MaxLen)}
    \cup {StrCell(S1023dot0), StrCell(S1comma023), StrCell(Sp1023sp)}
    \cup {IntCell(1023), FloatCell(1023), IntCell(7), FloatCell(7)}

A1 == <<"A", "1">>
A2 == <<"A", "2">>
B1 == <<"B", "1">>
FEEDER_B1 == <<"F", "E", "E", "D", "E", "R", "-", "B", "1">>
EntityX == <<"E", "n", "t", "i", "t", "y", "X">>
SubtotalEntityX == <<"S","u","b","t","o","t","a","l",":"," ","E","n","t","i","t","y","X">>

\* one Data_format row of each kind the code tells apart: Bin ID and Investran
\* Acct ID equal (with and without an amount), different, a feeder row, and a
\* subtotal marker row with empty keys
DetailRows ==
    {[legal |-> StrCell(EntityX), bin |-> StrCell(A1), inv |-> StrCell(A1),
      amount |-> IntCell(100)],
     [legal |-> StrCell(EntityX), bin |-> StrCell(A1), inv |-> StrCell(A1),
      amount |-> IntCell(0)],
     [legal |-> StrCell(EntityX), bin |-> StrCell(B1), inv |-> StrCell(A1),
      amount |-> IntCell(100)],
     [legal |-> StrCell(EntityX), bin |-> StrCell(FEEDER_B1), inv |-> StrCell(A2),
      amount |-> IntCell(0)],
     [legal |-> StrCell(SubtotalEntityX), bin |-> NaN, inv |-> NaN,
      amount |-> IntCell(0)]}

CdrRows == [acct : {StrCell(A1), StrCell(B1)}, commit : {IntCell(0), IntCell(90)}]

InvesternRows == {[vehicle |-> StrCell(EntityX), acct |-> StrCell(B1), commit |-> IntCell(100)]}

HeaderRow == [c0 |-> StrCell(VehicleInvestor), c1 |-> StrCell(InvestorID)]

AllocationSheet ==
    <<HeaderRow, [c0 |-> StrCell(EntityX), c1 |-> StrCell(A2)],
      [c0 |-> StrCell(EntityX), c1 |-> StrCell(A1)]>>

NormIdle ==
    /\ x = NaN
    /\ y = <<>>
    /\ z = <<>>
    /\ npc = "idle"

SheetsUnread ==
    /\ acct_to_commit_multi = <<>>
    /\ df = <<>>
    /\ sections = <<>>
    /\ combined_df = <<>>
    /\ id_to_amt = <<>>
    /\ entry_df = NoEntry

\* the workbooks on disk when the script starts (cdr_file_data is read at import, line 14)
Init ==
    /\ NormIdle
    /\ cdr_file_data \in SeqsOf(CdrRows, 0, MaxCdr)
    /\ data_format \in SeqsOf(DetailRows, 1, MaxRows)
    /\ investern_format \in SeqsOf(InvesternRows, 0, MaxInvestern)
    /\ allocation_data = AllocationSheet
    /\ SheetsUnread
    /\ LockIdle
    /\ BackendIdle
    /\ pc = "main"
    /\ AppIdle

\* the __main__ block, lines 403-406
Next == CreateCommitmentSheet \/ CreateEntrySheet

Spec == Init /\ [][Next]_vars

InitNorm ==
    /\ x \in NormInputs
    /\ y = <<>>
    /\ z = <<>>
    /\ npc = "in"
    /\ cdr_file_data = <<>>
    /\ data_format = <<>>
    /\ investern_format = <<>>
    /\ allocation_data = <<>>
    /\ SheetsUnread
    /\ LockIdle
    /\ BackendIdle
    /\ pc = "idle"
    /\ AppIdle

\* one CDR row and one Data_format row that carry the same raw identifier
InitJoin ==
    /\ NormIdle
    /\ \E c \in NormInputs :
           /\ cdr_file_data = <<[acct |-> c, commit |-> IntCell(90)]>>
           /\ data_format = <<[legal |-> StrCell(EntityX), bin |-> c, inv |-> c,
                                amount |-> IntCell(100)]>>
    /\ investern_format = <<>>
    /\ allocation_data = AllocationSheet
    /\ SheetsUnread
    /\ LockIdle
    /\ BackendIdle
    /\ pc = "main"
    /\ AppIdle

SpecJoin == InitJoin /\ [][Next]_vars

SUBTOTAL == <<"S", "U", "B", "T", "O", "T", "A", "L">>
Sub_total == <<"S", "u", "b", " ", "t", "o", "t", "a", "l">>

\* the rows of a grouped detail table: members with the amounts 5, 7 and 3, a
\* marker row with an empty amount, a marker row in capitals that carries an
\* amount of its own, and a row whose label is no marker
GroupRows ==
    {[legal |-> StrCell(EntityX), bin |-> StrCell(A1), inv |-> StrCell(A1),
      amount |-> IntCell(5)],
     [legal |-> StrCell(EntityX), bin |-> StrCell(A2), inv |-> StrCell(A2),
      amount |-> IntCell(7)],
     [legal |-> StrCell(EntityX), bin |-> StrCell(B1), inv |-> StrCell(B1),
      amount |-> IntCell(3)],
     [legal |-> StrCell(SubtotalEntityX), bin |-> NaN, inv |-> NaN, amount |-> NaN],
     [legal |-> StrCell(SUBTOTAL), bin |-> NaN, inv |-> NaN, amount |-> IntCell(9)],
     [legal |-> StrCell(Sub_total), bin |-> NaN, inv |-> NaN, amount |-> IntCell(1)]}

\* the reference amounts 4, 6 and 2 of the three members
GroupCdr ==
    <<[acct |-> StrCell(A1), commit |-> IntCell(4)],
      [acct |-> StrCell(A2), commit |-> IntCell(6)],
      [acct |-> StrCell(B1), commit |-> IntCell(2)]>>

\* a grouped detail table of up to MaxRows + 1 rows against the three references
InitGroups ==
    /\ NormIdle
    /\ cdr_file_data = GroupCdr
    /\ data_format \in SeqsOf(GroupRows, 1, MaxRows + 1)
    /\ investern_format = <<>>
    /\ allocation_data = AllocationSheet
    /\ SheetsUnread
    /\ LockIdle
    /\ BackendIdle
    /\ pc = "main"
    /\ AppIdle

SpecGroups == InitGroups /\ [][Next]_vars

\* a detail table of every kind of row against every CDR sheet, with an empty
\* investern_format sheet
InitAmount ==
    /\ NormIdle
    /\ cdr_file_data \in SeqsOf(CdrRows, 0, MaxCdr)
    /\ data_format \in SeqsOf(DetailRows, 1, MaxRows)
    /\ investern_format = <<>>
    /\ allocation_data = AllocationSheet
    /\ SheetsUnread
    /\ LockIdle
    /\ BackendIdle
    /\ pc = "main"
    /\ AppIdle

SpecAmount == InitAmount /\ [][Next]_vars

\* a grouped detail table beside an investern_format sheet that is shorter, as
\* long or longer
InitOrder ==
    /\ NormIdle
    /\ cdr_file_data = GroupCdr
    /\ data_format \in SeqsOf(GroupRows, 1, MaxRows)
    /\ investern_format \in SeqsOf(InvesternRows, 0, MaxInvestern)
    /\ allocation_data = AllocationSheet
    /\ SheetsUnread
    /\ LockIdle
    /\ BackendIdle
    /\ pc = "main"
    /\ AppIdle

SpecOrder == InitOrder /\ [][Next]_vars

Sp_A1 == <<" ", "A", "1">>
S7 == <<"7">>

\* rows of the lookup sheet: column B a text key, the same key with a leading
\* space, a number or an empty cell; column D one of two amounts or empty
LookupSheetRows ==
    [b : {StrCell(A1), StrCell(Sp_A1), IntCell(7), NaN}, d : {IntCell(10), IntCell(20), NaN}]

\* rows of the first sheet of the second workbook: column F a key of the lookup
\* sheet, a key that is not there, the text of the number 7, or an empty cell
ConnSourceRows == [f : {StrCell(A1), StrCell(B1), StrCell(S7), NaN}]

Workbooks(rows) == {NoWorkbook} \cup {[exists |-> TRUE, rows |-> r] : r \in rows}

\* the scripts of src/text.py are not running
TextIdle ==
    /\ NormIdle
    /\ cdr_file_data = <<>>
    /\ data_format = <<>>
    /\ investern_format = <<>>
    /\ allocation_data = <<>>
    /\ SheetsUnread
    /\ pc = "idle"

\* every user calls update_shared_excel_with_kpi on the same shared drive, which
\* holds no lock file and may hold the Excel file
InitLock ==
    /\ TextIdle
    /\ drive_exists \in BOOLEAN
    /\ lock_file = FALSE
    /\ file_present \in BOOLEAN
    /\ file_rows = 0
    /\ upc = [u \in Users |-> "call"]
    /\ initial_hash = [u \in Users |-> <<>>]
    /\ result = [u \in Users |-> NoResult]
    /\ rows_written = [u \in Users |-> 0]
    /\ BackendIdle
    /\ AppIdle

NextLock ==
    \/ \E u \in Users :
           \/ CheckAccess(u)
           \/ CheckLock(u)
           \/ CreateLock(u)
           \/ InitialHash(u)
           \/ LoadExcel(u)
           \/ VerifyHash(u)
           \/ ReleaseLock(u)
    \/ OtherUserSaves

SpecLock == InitLock /\ [][NextLock]_vars

I1 == <<"I", "1">>
A == <<"A">>
a_1 == <<"a", " ", "1">>

\* the rows of the connection sheet: a Bin ID that is a lookup key, one that is
\* another lookup key, and one that is the beginning of a lookup key
ConnRows ==
    {[bin |-> StrCell(A1), acct |-> StrCell(A2), amount |-> IntCell(5),
      norm_id |-> <<>>, gs |-> NaN, match |-> ""],
     [bin |-> StrCell(B1), acct |-> StrCell(B1), amount |-> IntCell(7),
      norm_id |-> <<>>, gs |-> NaN, match |-> ""],
     [bin |-> StrCell(A), acct |-> StrCell(A1), amount |-> IntCell(3),
      norm_id |-> <<>>, gs |-> NaN, match |-> ""]}

\* a connection sheet with the column Investran Acct ID, and the same sheet
\* without it
ConnSheets ==
    {[columns |-> <<BinID, InvestranAcctID, CommitmentAmount>>, rows |-> rows] :
        rows \in SeqsOf(ConnRows, 1, MaxConn)}
    \cup {[columns |-> <<BinID, CommitmentAmount>>,
           rows |-> [i \in DOMAIN rows |-> [rows[i] EXCEPT !.acct = NaN]]] :
        rows \in SeqsOf(ConnRows, 1, MaxConn)}

\* the rows of the summary: two accounts, and the first account written in
\* another way
SummaryRows ==
    {[name |-> StrCell(EntityX), acct |-> StrCell(A1), id |-> StrCell(I1),
      commit |-> IntCell(4)],
     [name |-> StrCell(EntityX), acct |-> StrCell(B1), id |-> StrCell(I1),
      commit |-> IntCell(6)],
     [name |-> StrCell(EntityX), acct |-> StrCell(a_1), id |-> StrCell(I1),
      commit |-> IntCell(9)]}

SummaryColumns == <<"Investor Name", "Account Number", "Investor ID", "Investor Commitment">>

\* an entry sheet of two investors with the column Investor ID, and the same
\* sheet without it
EntrySheets ==
    {[columns |-> <<InvestorIDColumn>>,
      rows |-> <<[id |-> StrCell(A2), norm_id |-> <<>>, bin |-> NaN, commitment |-> NaN],
                 [id |-> StrCell(B1), norm_id |-> <<>>, bin |-> NaN, commitment |-> NaN]>>],
     [columns |-> <<"Investor">>,
      rows |-> <<[id |-> NaN, norm_id |-> <<>>, bin |-> NaN, commitment |-> NaN],
                 [id |-> NaN, norm_id |-> <<>>, bin |-> NaN, commitment |-> NaN]>>]}

\* a processor is constructed on the two workbooks and backend_process is called
InitBackend ==
    /\ TextIdle
    /\ LockIdle
    /\ summary_sheet \in {[columns |-> SummaryColumns, rows |-> rows] :
                              rows \in SeqsOf(SummaryRows, 0, MaxSummary)}
    /\ investern_sheet \in EntrySheets
    /\ conn_sheet \in ConnSheets
    /\ cdr_sumary_df = NoFrame
    /\ investern_entry_df = NoFrame
    /\ conn_df = NoFrame
    /\ lookup_df = NoLookup
    /\ mapping = <<>>
    /\ wb = <<>>
    /\ bpc = "load_data"
    /\ tpc = TasksIdle
    /\ approx = NoApprox
    /\ AppIdle

\* backend_process(), lines 775-825, with the steps of the three tasks in any
\* order the thread pool gives them
NextBackend ==
    \/ LoadData
    \/ PreprocessData
    \/ SubmitTasks
    \/ CommitmentLookupDf
    \/ CommitmentMapping
    \/ CommitmentMatch
    \/ CommitmentSubtotal
    \/ CommitmentWrite
    \/ EntryCreate
    \/ EntryWrite
    \/ ApproxConnKeys
    \/ ApproxLookupKeys
    \/ ApproxMatch
    \/ ApproxWrite
    \/ SaveWorkbook

SpecBackend == InitBackend /\ [][NextBackend]_vars

NextNorm == NormOnce \/ NormTwice

SpecNorm == InitNorm /\ [][NextNorm]_vars

\* python excel_vlookup_conn.py first_workbook.xlsx second_workbook.xlsx
InitVlookup ==
    /\ TextIdle
    /\ LockIdle
    /\ BackendIdle
    /\ file1 \in Workbooks(SeqsOf(LookupSheetRows, 0, MaxSummary))
    /\ file2 \in Workbooks(SeqsOf(ConnSourceRows, 0, MaxConn))
    /\ gs_conn = <<>>
    /\ mpc = "main"
    /\ DashNew
    /\ SeqNew
    /\ GuiNew

NextVlookup == MainReturns \/ Main

SpecVlookup == InitVlookup /\ [][NextVlookup]_vars

\* the dashboard of logging.py is open, the user name and the password are
\* typed and the directory the user will select holds NumFiles macro files
InitDash ==
    /\ TextIdle
    /\ LockIdle
    /\ BackendIdle
    /\ VlookupIdle
    /\ DashNew
    /\ SeqNew
    /\ GuiNew

NextDash ==
    \/ start_macros
    \/ \E f \in Files :
           \/ SetRunning(f)
           \/ PerformOperation(f)
           \/ SetCompleted(f)
           \/ CheckBegin(f)
           \/ CheckEnd(f)
           \/ Finish(f)
    \/ clear_logs
    \/ refresh_status

SpecDash == InitDash /\ [][NextDash]_vars

\* the dashboard of sreeproject.py is open and the user name and the password
\* are typed; Start is pressed once, Clear and Refresh are not
InitSeq ==
    /\ TextIdle
    /\ LockIdle
    /\ BackendIdle
    /\ VlookupIdle
    /\ DashNew
    /\ SeqNew
    /\ GuiNew

NextSeq ==
    \/ seq_start_macros
    \/ UpdateRunning
    \/ ExecuteMacro
    \/ UpdateCompleted
    \/ FinishCallback
    \/ set_status
    \/ \E i \in Macros : DotsCheck(i) \/ DotsWrite(i)

SpecSeq == InitSeq /\ [][NextSeq]_vars

\* the window of starpio-gui.py is open
InitGui ==
    /\ TextIdle
    /\ LockIdle
    /\ BackendIdle
    /\ VlookupIdle
    /\ DashNew
    /\ SeqNew
    /\ GuiNew

NextGui ==
    \/ show_home
    \/ show_help
    \/ \E button_id \in securities : update_frame2(button_id)
    \/ browse_file
    \/ PressSubmit
    \/ submit_file
    \/ submit_file_raises
    \/ \E success_message \in Masters : run_with_loading_bar(success_message)
    \/ finish_update

SpecGui == InitGui /\ [][NextGui]_vars

\* the main loop of Tk runs a callback of self.after once its delay is over
SpecGuiFair == SpecGui /\ WF_vars(finish_update)

----------------------------------------------------------------------------
(* Properties *)

Feeder == <<"f", "e", "e", "d", "e", "r">>

\* the Bin ID of a row, case-folded, contains "feeder"
IsFeeder(row) == ~IsNa(row.bin) /\ Contains(Lower(Str(row.bin)), Feeder)

\* the detail rows that are no subtotal marker
DetailIdx == {i \in DOMAIN df : ~IsSubtotal(df[i].legal)}

\* the marker row that ends the group of row i (0 when none follows)
GroupEnd(i) ==
    IF \E j \in DOMAIN df : j > i /\ IsSubtotal(df[j].legal)
    THEN CHOOSE j \in DOMAIN df :
             /\ j > i /\ IsSubtotal(df[j].legal)
             /\ \A m \in DOMAIN df : (m > i /\ IsSubtotal(df[m].legal)) => j <= m
    ELSE 0

\* the members of the group of row i: the rows after the previous marker and
\* before the next one
GroupMembers(i) ==
    {j \in DetailIdx :
        /\ j < GroupEnd(i)
        /\ \A m \in DOMAIN df : IsSubtotal(df[m].legal) => (m < i <=> m < j)}

\* the key of a detail row and whether the multi-key lookup has it
RowKey(i) == <<df[i].bin_norm, df[i].inv_acct_norm>>
Matched(i) == RowKey(i) \in DOMAIN acct_to_commit_multi

\* the reference amount of a row before any override: the result of the lookup
InitialRef(i) == IF Matched(i) THEN acct_to_commit_multi[RowKey(i)] ELSE 0

\* the sum of the looked-up reference amounts of the rows S
RECURSIVE SumInitialRef(_)
SumInitialRef(S) ==
    IF S = {} THEN 0
    ELSE LET e == CHOOSE e \in S : TRUE IN InitialRef(e) + SumInitialRef(S \ {e})

\* the rows of the CDR sheet that are the first of their lookup key
FirstOfKey(i) == \A j \in DOMAIN cdr_file_data :
                     j < i => CdrKey(cdr_file_data[j]) # CdrKey(cdr_file_data[i])

\* C1: every feeder row of a group ended by a subtotal marker carries as GS
\* Commitment the sum of the group's reference amounts as looked up (before any
\* override), and GS Check = Commitment Amount - GS Commitment
C1_FeederOverride ==
    pc # "main" =>
        \A i \in DetailIdx :
            (IsFeeder(df[i]) /\ GroupEnd(i) # 0) =>
                /\ df[i].gs = SumInitialRef(GroupMembers(i))
                /\ df[i].check = df[i].amount - df[i].gs

\* C2: the multi-key lookup gives every key the amount of the first CDR row that
\* has this key
C2_MultiFirstWins ==
    pc # "main" =>
        \A i \in DOMAIN cdr_file_data :
            FirstOfKey(i) =>
                acct_to_commit_multi[CdrKey(cdr_file_data[i])]
                    = to_numeric_fillna0(cdr_file_data[i].commit)

\* C3: the single-key map of the entry sheet gives every key the amount of the
\* first CDR row that has this key; the amounts of equal keys are not summed
C3_SingleFirstWins ==
    pc = "done" =>
        \A i \in DOMAIN cdr_file_data :
            (\A j \in DOMAIN cdr_file_data :
                 j < i => bin_id_form(cdr_file_data[j].acct) # bin_id_form(cdr_file_data[i].acct))
            => id_to_amt[bin_id_form(cdr_file_data[i].acct)] = NumValue(cdr_file_data[i].commit)

\* C4: a row that is no subtotal marker, whose key pair is not in the multi-key
\* lookup and whose normalised Bin ID alone is the key of a CDR row, gets that
\* row's amount as GS Commitment
C4_SingleKeyFallback ==
    pc # "main" =>
        \A i \in DetailIdx : \A r \in DOMAIN cdr_file_data :
            (/\ ~Matched(i)
             /\ CdrKey(cdr_file_data[r])[1] = df[i].bin_norm
             /\ \A q \in DOMAIN cdr_file_data :
                    q < r => CdrKey(cdr_file_data[q])[1] # df[i].bin_norm)
            => df[i].gs = to_numeric_fillna0(cdr_file_data[r].commit)

ScenarioDetail ==
    <<[legal |-> StrCell(EntityX), bin |-> StrCell(B1), inv |-> StrCell(A1),
       amount |-> IntCell(100)],
      [legal |-> StrCell(EntityX), bin |-> StrCell(FEEDER_B1), inv |-> StrCell(A2),
       amount |-> IntCell(0)],
      [legal |-> StrCell(SubtotalEntityX), bin |-> NaN, inv |-> NaN,
       amount |-> IntCell(0)]>>

\* the reference row (B1, A1, 90): the CDR sheet has the one identifier column
\* Account Number, which holds either of the two
ScenarioCdr ==
    {<<[acct |-> StrCell(B1), commit |-> IntCell(90)]>>,
     <<[acct |-> StrCell(A1), commit |-> IntCell(90)]>>}

\* C5: the end-to-end scenario gives row 1 reference 90 and check 10, the feeder
\* row reference 90 and check -90, the subtotal row amount 100, reference 180 and
\* check -80
C5_EndToEnd ==
    (pc # "main" /\ data_format = ScenarioDetail /\ cdr_file_data \in ScenarioCdr) =>
        /\ df[1].gs = 90 /\ df[1].check = 10
        /\ df[2].gs = 90 /\ df[2].check = 0 - 90
        /\ df[3].amount = 100 /\ df[3].gs = 180 /\ df[3].check = 0 - 80

\* C6: norm_key applied to its own result changes nothing
C6_Idempotent == npc = "twice" => z = y

\* C7: "1023.0", "1,023" and " 1023 " normalise to the same string, and a whole
\* float normalises to the digits of its integer
C7_Equivalence ==
    npc # "in" =>
        /\ x \in {StrCell(S1023dot0), StrCell(S1comma023), StrCell(Sp1023sp)} => y = S1023
        /\ x.k = "float" => y = norm_key(IntCell(x.n))

\* C8: the result of norm_key has no space, no comma, no hyphen and no lowercase
\* letter
C8_NoSeparators ==
    npc # "in" =>
        \A i \in DOMAIN y : y[i] \notin {" ", NBSP, ",", "-"} \cup LowerSet

\* C9: a CDR row and a detail row that carry the same raw identifier get the same
\* lookup key, and the detail row resolves to the amount of the CDR row
C9_SameKeyBothSides ==
    pc # "main" =>
        /\ Matched(1)
        /\ df[1].gs = to_numeric_fillna0(cdr_file_data[1].commit)

----------------------------------------------------------------------------
(* The subtotal pass *)

\* the rows the loop treated as subtotal markers: the idx of its iterations
Treated == {sections[k][2] : k \in DOMAIN sections}

\* the rows whose label makes them a subtotal marker
Markers == {i \in DOMAIN df : IsSubtotal(df[i].legal)}

\* the rows after the previous marker and before row i
RowsBefore(i) == {j \in 1..(i - 1) : \A m \in Markers : m < i => m < j}

\* the sum of f over the rows S
RECURSIVE SumOf(_, _)
SumOf(f, S) ==
    IF S = {} THEN 0
    ELSE LET e == CHOOSE e \in S : TRUE IN f[e] + SumOf(f, S \ {e})

Amounts == [i \in DOMAIN df |-> df[i].amount]
References == [i \in DOMAIN df |-> df[i].gs]

\* C11: every subtotal marker row carries as Commitment Amount the sum of the
\* final Commitment Amount of the rows after the previous marker and before it,
\* as GS Commitment the sum of their final GS Commitment, and as GS Check the
\* difference of the two sums
C11_SubtotalCorrect ==
    pc # "main" =>
        \A i \in Markers :
                /\ df[i].amount = SumOf(Amounts, RowsBefore(i))
                /\ df[i].gs = SumOf(References, RowsBefore(i))
                /\ df[i].check = SumOf(Amounts, RowsBefore(i)) - SumOf(References, RowsBefore(i))

\* the example of the specification: amounts 5, 7, 3 and references 4, 6, 2 give
\* 15, 12 and 3 on the marker row
C11_Witness ==
    /\ pc # "main"
    /\ Len(df) = 4
    /\ <<df[1].amount, df[2].amount, df[3].amount>> = <<5, 7, 3>>
    /\ <<df[1].gs, df[2].gs, df[3].gs>> = <<4, 6, 2>>
    /\ IsSubtotal(df[4].legal)
    /\ <<df[4].amount, df[4].gs, df[4].check>> = <<15, 12, 3>>

\* the rows of the groups the loop processed, in the order it processed them:
\* for every iteration the section start_idx .. idx - 1 and the marker row idx
RECURSIVE ProcessedRows(_)
ProcessedRows(secs) ==
    IF secs = <<>> THEN <<>>
    ELSE LET start_idx == Head(secs)[1]
             idx == Head(secs)[2]
         IN  [k \in 1..(idx - start_idx + 1) |-> start_idx + k - 1]
                 \o ProcessedRows(Tail(secs))

\* the last marker row (0 when the table has none)
LastMarker == IF Markers = {} THEN 0 ELSE CHOOSE i \in Markers : \A m \in Markers : m <= i

----------------------------------------------------------------------------
(* The amount and the check column of the detail rows *)

\* the Commitment Amount of row i as read from the Data_format sheet (line 95)
InputAmount(i) == to_numeric_fillna0(data_format[i].amount)

\* C13: every row that is no subtotal marker carries in the output the
\* Commitment Amount read from the input
C13_AmountAuthoritative ==
    pc # "main" =>
        \A i \in DetailIdx : df[i].amount = InputAmount(i)

\* C13 amended: a row that is no subtotal marker carries the Commitment Amount
\* read from the input, unless that amount is 0 and the looked-up GS Commitment
\* is not: then it carries the GS Commitment
C13_AmountUnlessZero ==
    pc # "main" =>
        \A i \in DetailIdx :
            df[i].amount = IF InputAmount(i) = 0 /\ InitialRef(i) # 0
                           THEN InitialRef(i)
                           ELSE InputAmount(i)

\* one row whose amount of 0 was replaced by its reference amount, one row that
\* kept its amount next to a reference amount, and a recomputed subtotal row
C13_Witness ==
    /\ pc # "main"
    /\ \E i \in DetailIdx : InputAmount(i) = 0 /\ df[i].amount = 90 /\ df[i].gs = 90
    /\ \E j \in DetailIdx : InputAmount(j) = 100 /\ df[j].amount = 100 /\ df[j].gs = 90
    /\ \E m \in Markers : df[m].amount # InputAmount(m)

\* C18: GS Check = Commitment Amount - GS Commitment on every row of the detail
\* table, the subtotal rows included
C18_CheckConsistent ==
    pc # "main" =>
        \A i \in DOMAIN df : df[i].check = df[i].amount - df[i].gs

\* a detail row and a subtotal row, both with a check that is not 0
C18_Witness ==
    /\ pc # "main"
    /\ \E i \in DetailIdx : df[i].check # 0 /\ df[i].check = df[i].amount - df[i].gs
    /\ \E m \in Markers : df[m].check # 0 /\ df[m].check = df[m].amount - df[m].gs

----------------------------------------------------------------------------
(* The subtotal marker and the empty key *)

SubtotalWord == <<"s", "u", "b", "t", "o", "t", "a", "l">>

\* the text, letter case apart, has the word "subtotal" at some position
HasSubtotalWord(text) ==
    \E k \in 0..(Len(text) - Len(SubtotalWord)) :
        \A m \in DOMAIN SubtotalWord : LowerChar(text[k + m]) = SubtotalWord[m]

\* C19: the loop treats a row as a subtotal marker if and only if its Legal
\* Entity label, letter case apart, contains "subtotal"
C19_MarkerIffLabel ==
    pc # "main" =>
        \A i \in DOMAIN df :
            i \in Treated <=> HasSubtotalWord(Str(data_format[i].legal))

\* a marker in capitals and a marker in mixed case are treated, a label with the
\* two words apart and a plain label are not
C19_Witness ==
    /\ pc # "main"
    /\ \E i \in Treated : df[i].legal = SUBTOTAL
    /\ \E i \in Treated : df[i].legal = SubtotalEntityX
    /\ \E i \in DOMAIN df \ Treated : df[i].legal = Sub_total
    /\ \E i \in DOMAIN df \ Treated : df[i].legal = EntityX

\* C20: norm_key gives the empty string for an empty (null, NaN, missing) cell,
\* and a string for every cell
C20_NullIsEmpty ==
    npc # "in" =>
        /\ IsNa(x) => y = <<>>
        /\ DOMAIN y = 1..Len(y)

C20_Witness ==
    /\ npc = "once"
    /\ IsNa(x)
    /\ y = <<>>

----------------------------------------------------------------------------
(* The lock of the shared file *)

\* the invocations past the lock acquisition: file.lock created, finally block
\* not yet run
PastAcquisition == {u \in Users : upc[u] \in {"hash", "load", "verify", "finally"}}

\* C16: at most one invocation at a time is past the lock acquisition
C16_MutualExclusion == Cardinality(PastAcquisition) <= 1

\* C17: an invocation that returned "File updated successfully." has appended
\* one row to the file, and its rows_added is the number of rows it added
C17_SuccessAppendsOneRow ==
    \A u \in Users :
        result[u].status = FileUpdated =>
            /\ rows_written[u] = 1
            /\ result[u].rows_added = rows_written[u]

----------------------------------------------------------------------------
(* The backend processor *)

\* C14: a run whose entry sheet has no column Investor ID stops with an error
\* in preprocess_data: it does not go on to the sheet updates, and no entry row
\* gets an empty string as its normalised key
C14_MissingKeyFailsFast ==
    (bpc \notin {"idle", "load_data", "preprocess_data"}
        /\ ~HasColumn(investern_sheet, InvestorIDColumn))
    => /\ bpc = "error"
       /\ \A i \in DOMAIN investern_entry_df.rows :
              investern_entry_df.rows[i].norm_id # <<>>

\* the sheet of the workbook with this title
SheetOf(title) == wb[CHOOSE k \in DOMAIN wb : wb[k].title = title]

\* the rows of conn_df when the three tasks have run one after the other in
\* the order of their submission: matched, then the subtotal row appended
SequentialConn ==
    LET rows == [i \in DOMAIN conn_sheet.rows |->
                    [conn_sheet.rows[i] EXCEPT !.norm_id = ConnNormalized(conn_sheet)[i]]]
        matched == MatchRows(rows, lookup_keys(summary_sheet.rows),
                             Mapping(summary_sheet.rows))
    IN  Append(matched, subtotal_row(matched))

\* the matches update_approx_matches_sheet finds when it runs last
SequentialApprox ==
    approx_matches([i \in DOMAIN SequentialConn |->
                       normalize_keys(StrCell(Str(SequentialConn[i].bin)))],
                   lookup_keys(summary_sheet.rows), Mapping(summary_sheet.rows))

\* C15: whatever the interleaving of the three tasks, the sheets Commitment,
\* Entry and Approx Matches have the content they have when the tasks run one
\* after the other in the order of their submission
C15_TasksIndependent ==
    (\A t \in Tasks : tpc[t] = "done") =>
        /\ SheetOf("Commitment").rows = SequentialConn
        /\ SheetOf("Entry").rows = MapEntry(investern_sheet, conn_sheet)
        /\ SheetOf("Entry").total = commitment_sum(SequentialConn)
        /\ SheetOf("Approx Matches").rows = SequentialApprox
        /\ SheetOf("Approx Matches").text = IF SequentialApprox = <<>> THEN NoMatches ELSE ""

----------------------------------------------------------------------------
(* The order of the detail rows in the Commitment Sheet *)

\* the cells that identify a Data_format row, as the sheet shows them
Shown(r) ==
    [legal |-> clean_cell(StrCell(Strip(Str(r.legal)))),
     bin |-> clean_cell(r.bin),
     inv |-> clean_cell(r.inv)]

ShownLeft(i) ==
    [legal |-> combined_df[i].left.legal,
     bin |-> combined_df[i].left.bin,
     inv |-> combined_df[i].left.inv]

\* C21: once create_commitment_sheet has run, the i-th row of the sheet's detail
\* part is the i-th row of Data_format, for every i: the sheet has one row per
\* row of the longer input table and the SS subtotal row, and the rows after the
\* last Data_format row carry no detail cells
C21_OriginalOrder ==
    pc # "main" =>
        /\ Len(combined_df) = Max(Len(data_format), Len(investern_format)) + 1
        /\ \A i \in DOMAIN data_format : ShownLeft(i) = Shown(data_format[i])
        /\ \A i \in (Len(data_format) + 1)..Len(combined_df) :
               ShownLeft(i) = [legal |-> Blank, bin |-> Blank, inv |-> Blank]

\* a sheet made from detail rows that differ, beside a longer investern_format
\* sheet or a shorter one
C21_Witness ==
    /\ pc # "main"
    /\ Len(data_format) >= 2
    /\ Shown(data_format[1]) # Shown(data_format[2])
    /\ Len(investern_format) # Len(data_format)

----------------------------------------------------------------------------
(* The GS conn column of nocode.py *)

\* the rows of the lookup sheet whose column-B key is the column-F key of Conn row i
LookupMatches(i) ==
    {j \in DOMAIN file1.rows : lookup_key(file1.rows[j].b) = lookup_key(file2.rows[i].f)}

FirstMatch(i) == CHOOSE j \in LookupMatches(i) : \A k \in LookupMatches(i) : j <= k
LastMatch(i) == CHOOSE j \in LookupMatches(i) : \A k \in LookupMatches(i) : j >= k

\* C22: once main has succeeded, GS conn of every Conn row is the column-D value
\* of the first row of the lookup sheet with the row's key, and empty when the
\* lookup sheet has no row with that key
C22_FirstMatch ==
    mpc = "success" =>
        \A i \in DOMAIN file2.rows :
            gs_conn[i] = IF LookupMatches(i) = {} THEN NaN
                         ELSE file1.rows[FirstMatch(i)].d

\* what main computes: the value of the last row with the key
C22_LastMatch ==
    mpc = "success" =>
        \A i \in DOMAIN file2.rows :
            gs_conn[i] = IF LookupMatches(i) = {} THEN NaN
                         ELSE file1.rows[LastMatch(i)].d

----------------------------------------------------------------------------
(* The release of file.lock *)

\* C23: whenever an invocation that created file.lock ends, by returning or by
\* an exception that leaves the function, file.lock is not there any more
C23_LockAlwaysReleased ==
    [][\A u \in Users :
          (u \in PastAcquisition /\ upc'[u] \in {"returned", "raised"}) => ~lock_file']_vars

----------------------------------------------------------------------------
(* The mapping of update_commitment_sheet *)

LookupKeySet == {lookup_keys(lookup_df.rows)[j] : j \in DOMAIN lookup_df.rows}

ConnKey(i) == normalize_keys(StrCell(Str(conn_df.rows[i].bin)))

\* C24: the step that builds the mapping gives every normalised lookup key a tuple
\* of values, and the step that matches the connection rows gives every row
\* whose normalised Bin ID is a lookup key the Match Type "-" and a GS Commitment
\* that is not empty
C24_ExactMatchGetsTuple ==
    [][/\ (tpc.commitment = "mapping" /\ tpc'.commitment = "match") =>
              \A key \in LookupKeySet :
                  key \in DOMAIN mapping' /\ mapping'[key].k = "tuple"
       /\ (tpc.commitment = "match" /\ tpc'.commitment = "subtotal") =>
              \A i \in DOMAIN conn_df.rows :
                  ConnKey(i) \in LookupKeySet =>
                      /\ conn_df'.rows[i].match = "-"
                      /\ ~IsNa(conn_df'.rows[i].gs)]_vars

----------------------------------------------------------------------------
(* The completion of the per-file dashboard *)

\* C25: finish is called only when every file of the Start has the status
\* "Completed" and no thread is before the return of perform_operation
C25_FinishOnlyWhenAllCompleted ==
    [][finish_calls' # finish_calls =>
          \A g \in Files :
              /\ mt[g] \notin {"started", "operation"}
              /\ g \in DOMAIN status_dict
              /\ status_dict[g] = Completed]_vars

\* C26: finish is called at most once for the Start
C26_FinishAtMostOnce == finish_calls <= 1

----------------------------------------------------------------------------
(* The status of a completed macro in the sequential dashboard *)

\* C27: a status that is "Completed" stays "Completed"
C27_CompletedStays ==
    [][\A i \in DOMAIN status_lines :
          status_lines[i] = Completed => status_lines'[i] = Completed]_vars

----------------------------------------------------------------------------
(* The buttons of Frame 1 during an update *)

\* C28: buttons that run_with_loading_bar has disabled are enabled again later
C28_ButtonsReEnabled == (frame1_buttons = "disabled") ~> (frame1_buttons = "normal")

----------------------------------------------------------------------------
(* The two identifiers of a detail row against the one CDR column *)

SameIdentifiers(i) == norm_key(df[i].bin) = norm_key(df[i].inv)

====
